---- MODULE Spec2Model ----
(***************************************************************************)
(* A model of the .lov language implementation: the scope registry         *)
(* (Environment), the type validators, the tree-walking evaluator          *)
(* (Interpreter) and the bytecode compiler / virtual machine (Engine).     *)
(*                                                                         *)
(* Eight specifications share the variables below:                         *)
(*   SpecEnv  - a chain of scopes under define / get / assign /createChild *)
(*   SpecType - the type validators applied to values and box declarations *)
(*   SpecTry  - one execution of Interpreter.evalTryAction, step by step   *)
(*   Spec     - one program run through Engine.run and through             *)
(*              Interpreter.interpret                                      *)
(*   SpecJob  - Spec on programs of job declarations and calls, with the   *)
(*              timers of the jobs declared with a delay                   *)
(*   SpecAct  - Spec on programs of var declarations and of set, loop,     *)
(*              try, return and subscribe actions, with the events fired   *)
(*              once the program has run                                   *)
(*   SpecTok  - one call of Tokenizer.tokenize, one scanned token a step   *)
(*   SpecParse - one call of Parser.parseProgram or Parser.parseExpr       *)
(***************************************************************************)
EXTENDS Integers, Sequences, FiniteSets, TLC

VARIABLES
  cls,         \* SpecEnv: which Environment class the chain is built from
  scopes,      \* the arena of Environment objects, scopes[i] = [parent, bindings, types]
  last,        \* SpecEnv, SpecType: the last operation, its arguments and outcome
  out,         \* the evaluator's console output, one entry per console.log
  tryNode,     \* SpecTry: the TryAction node being evaluated
  tpc,         \* SpecTry: the position inside evalTryAction
  tidx,        \* SpecTry: the next action of the block being executed
  e,           \* SpecTry: the Error caught from the try block
  outcome,     \* SpecTry: how evalTryAction ended (return or throw)
  finallyRuns, \* SpecTry: how many times the finally block was started
  ran,         \* SpecTry: the actions executed, as <<block, index>>
  catchEnv,    \* SpecTry: the scope created for the catch block, 0 if none
  ast,         \* Spec: the program given to both engines
  ipc,         \* Spec: the Interpreter's position in the pack body
  iResult,      \* Spec: how Interpreter.interpret ended (return or throw)
  raised,      \* Spec: the Errors thrown inside the Interpreter, with the item
  executed,    \* Spec: the pack items the Interpreter evaluated, in order
  instructions, \* Spec: Engine.instructions
  ip,          \* Spec: Engine.ip
  stack,       \* Spec: Engine.stack
  environment, \* Spec: the arena of the Engine's Environment objects
  vmOut,       \* Spec: the Engine's console output
  vmResult,    \* Spec: how Engine.execute ended (return or throw)
  vmRaised,    \* Spec: the Errors thrown inside the Engine, with the ip
  asyncJobs,   \* SpecJob: the timers of Interpreter.asyncJobs, in the order set
  vmAsyncJobs, \* SpecJob: the timers of Engine.asyncJobs, in the order set
  active,      \* Spec: Engine.environment, as an index of the arena
  eventListeners,   \* SpecAct: Interpreter.eventListeners, topic to handler
  vmEventListeners, \* SpecAct: Engine.eventListeners, topic to handler
  envListeners,     \* SpecAct: eventListeners of the global Environment
  events,      \* SpecAct: the events fired, with what each invoked
  parts,       \* SpecTok: the lexemes the source text is written from
  input,       \* SpecTok: Tokenizer.input, the source text
  pos,         \* SpecTok: Tokenizer.pos
  tokens,      \* SpecTok: the tokens array of tokenize
  tokenized,   \* SpecTok: how tokenize ended (return or throw)
  goal,        \* SpecParse: the Parser method called
  parserTokens, \* SpecParse: Parser.tokens
  parserPos,   \* SpecParse: Parser.pos
  programBody, \* SpecParse: node.body of the Program being parsed
  parsed       \* SpecParse: how the Parser method ended (return or throw)

tryVars == <<tryNode, tpc, tidx, e, outcome, finallyRuns, ran, catchEnv>>

interpVars == <<ast, ipc, iResult, raised, executed, asyncJobs>>

engineVars ==
  <<instructions, ip, stack, environment, vmOut, vmResult, vmRaised, vmAsyncJobs>>

runVars == <<interpVars, engineVars>>

hostVars == <<active, eventListeners, vmEventListeners, envListeners, events>>

tokVars == <<parts, input, pos, tokens, tokenized>>

parseVars == <<goal, parserTokens, parserPos, programBody, parsed>>

vars == <<cls, scopes, last, out, tryVars, runVars, hostVars, tokVars, parseVars>>

\* the variables a specification does not use keep these values
IdleTry ==
  /\ tryNode = [k |-> "null"]
  /\ tpc = "idle"
  /\ tidx = 0
  /\ e = [k |-> "none"]
  /\ outcome = [kind |-> "none"]
  /\ finallyRuns = 0
  /\ ran = <<>>
  /\ catchEnv = 0

\* no Engine exists, nothing is subscribed and no event was fired
IdleHost ==
  /\ active = 0
  /\ eventListeners = <<>>
  /\ vmEventListeners = <<>>
  /\ envListeners = {}
  /\ events = <<>>

IdleRun ==
  /\ ast = [type |-> "Program", body |-> <<>>]
  /\ ipc = 0
  /\ iResult = [kind |-> "none"]
  /\ raised = <<>>
  /\ executed = <<>>
  /\ instructions = <<>>
  /\ ip = 0
  /\ stack = <<>>
  /\ environment = <<>>
  /\ vmOut = <<>>
  /\ vmResult = [kind |-> "none"]
  /\ vmRaised = <<>>
  /\ asyncJobs = <<>>
  /\ vmAsyncJobs = <<>>
  /\ IdleHost

\* no Tokenizer and no Parser exists
IdleFront ==
  /\ parts = <<>>
  /\ input = ""
  /\ pos = 0
  /\ tokens = <<>>
  /\ tokenized = [kind |-> "none"]
  /\ goal = "none"
  /\ parserTokens = <<>>
  /\ parserPos = 0
  /\ programBody = <<>>
  /\ parsed = [kind |-> "none"]

notEnv == <<out, tryVars, runVars, hostVars, tokVars, parseVars>>

notTry == <<cls, last, runVars, hostVars, tokVars, parseVars>>

notRun == <<cls, tryVars, tokVars, parseVars>>

notTok == <<cls, scopes, last, out, tryVars, runVars, hostVars, parseVars>>

notParse == <<cls, scopes, last, out, tryVars, runVars, hostVars, tokVars>>

(***************************************************************************)
(* Bounds                                                                  *)
(***************************************************************************)
MaxScopes == 2

Names == {"x", "y"}

Vals == {1, 2}

(***************************************************************************)
(* Environment: the scope chain.  A scope is [parent |-> index or 0,       *)
(* bindings |-> a function from the names it binds to their values,        *)
(* types |-> a function from type names to type definitions]; a JavaScript *)
(* Map is the function, Map.has is membership in its DOMAIN.               *)
(***************************************************************************)
NewEnvironment(parent) == [parent |-> parent, bindings |-> <<>>, types |-> <<>>]

has(sc, s, name) == name \in DOMAIN sc[s].bindings

set(sc, s, name, value) ==
  [sc EXCEPT ![s].bindings =
     [n \in (DOMAIN sc[s].bindings) \cup {name} |->
        IF n = name THEN value ELSE sc[s].bindings[n]]]

createChild(sc, s) == Append(sc, NewEnvironment(s))

\* interpreter.js, class Environment ---------------------------------------
defineShadowChecked(sc, s, name, value) ==
  IF \E t \in 1..Len(sc) : has(sc, t, name)
    THEN [ok |-> FALSE, sc |-> sc, error |-> "already defined in this scope"]
    ELSE [ok |-> TRUE, sc |-> set(sc, s, name, value)]

define(sc, s, name, value) ==
  IF has(sc, s, name)
    THEN [ok |-> FALSE, sc |-> sc, error |-> "already defined in this scope"]
    ELSE [ok |-> TRUE, sc |-> set(sc, s, name, value)]

RECURSIVE get(_, _, _)
getLocalOnly(sc, s, name) ==
  IF has(sc, s, name)
    THEN [ok |-> TRUE, value |-> sc[s].bindings[name]]
    ELSE [ok |-> FALSE, error |-> "Undefined variable"]

get(sc, s, name) ==
  IF has(sc, s, name)
    THEN [ok |-> TRUE, value |-> sc[s].bindings[name]]
    ELSE IF sc[s].parent # 0
      THEN get(sc, sc[s].parent, name)
      ELSE [ok |-> FALSE, error |-> "Undefined variable"]

RECURSIVE assign(_, _, _, _)
assignOrCreate(sc, s, name, value) ==
  IF has(sc, s, name) \/ sc[s].parent = 0
    THEN [ok |-> TRUE, sc |-> set(sc, s, name, value)]
    ELSE assign(sc, sc[s].parent, name, value)

assign(sc, s, name, value) ==
  IF has(sc, s, name)
    THEN [ok |-> TRUE, sc |-> set(sc, s, name, value)]
    ELSE IF sc[s].parent # 0
      THEN assign(sc, sc[s].parent, name, value)
      ELSE [ok |-> FALSE, sc |-> sc, error |-> "Cannot assign to undefined variable"]

\* environment.js, class Environment ---------------------------------------
defineVariable(sc, s, name, value) ==
  IF has(sc, s, name)
    THEN [ok |-> FALSE, sc |-> sc, error |-> "already defined in this scope"]
    ELSE [ok |-> TRUE, sc |-> set(sc, s, name, value)]

RECURSIVE getVariable(_, _, _)
getVariable(sc, s, name) ==
  IF has(sc, s, name)
    THEN [ok |-> TRUE, value |-> sc[s].bindings[name]]
    ELSE IF sc[s].parent # 0
      THEN getVariable(sc, sc[s].parent, name)
      ELSE [ok |-> FALSE, error |-> "Undefined variable"]

RECURSIVE assignVariable(_, _, _, _)
assignVariable(sc, s, name, value) ==
  IF has(sc, s, name)
    THEN [ok |-> TRUE, sc |-> set(sc, s, name, value)]
    ELSE IF sc[s].parent # 0
      THEN assignVariable(sc, sc[s].parent, name, value)
      ELSE [ok |-> FALSE, sc |-> sc, error |-> "Cannot assign to undefined variable"]

(***************************************************************************)
(* SpecEnv: any sequence of createChild / define / get / assign on a chain *)
(* of scopes of one of the two Environment classes.                        *)
(***************************************************************************)
InitEnv ==
  /\ cls \in {"interpreter.js", "environment.js"}
  /\ scopes = <<NewEnvironment(0)>>
  /\ last = [op |-> "new"]
  /\ out = <<>>
  /\ IdleTry
  /\ IdleRun
  /\ IdleFront

CreateChildStep ==
  /\ Len(scopes) < MaxScopes
  /\ \E s \in 1..Len(scopes) :
       /\ scopes' = createChild(scopes, s)
       /\ last' = [op |-> "createChild", scope |-> s]
  /\ UNCHANGED <<cls, notEnv>>

DefineStep ==
  \E s \in 1..Len(scopes), name \in Names, value \in Vals :
    LET r == IF cls = "interpreter.js" THEN define(scopes, s, name, value)
                                       ELSE defineVariable(scopes, s, name, value)
    IN /\ scopes' = r.sc
       /\ last' = [op |-> "define", scope |-> s, name |-> name, value |-> value,
                   ok |-> r.ok]
       /\ UNCHANGED <<cls, notEnv>>

GetStep ==
  \E s \in 1..Len(scopes), name \in Names :
    LET r == IF cls = "interpreter.js" THEN get(scopes, s, name)
                                       ELSE getVariable(scopes, s, name)
    IN /\ last' = [op |-> "get", scope |-> s, name |-> name, ok |-> r.ok,
                   value |-> IF r.ok THEN r.value ELSE 0]
       /\ UNCHANGED <<cls, scopes, notEnv>>

AssignStep ==
  \E s \in 1..Len(scopes), name \in Names, value \in Vals :
    LET r == IF cls = "interpreter.js" THEN assign(scopes, s, name, value)
                                       ELSE assignVariable(scopes, s, name, value)
    IN /\ scopes' = r.sc
       /\ last' = [op |-> "assign", scope |-> s, name |-> name, value |-> value,
                   ok |-> r.ok]
       /\ UNCHANGED <<cls, notEnv>>

NextEnv == CreateChildStep \/ DefineStep \/ GetStep \/ AssignStep

SpecEnv == InitEnv /\ [][NextEnv]_vars

(***************************************************************************)
(* Reference notions for the scope claims, stated without the recursion of *)
(* the code: the parent chain of a scope and the nearest owner of a name.  *)
(***************************************************************************)
RECURSIVE Chain(_, _)
Chain(sc, s) == IF s = 0 THEN <<>> ELSE <<s>> \o Chain(sc, sc[s].parent)

Owners(sc, s, name) ==
  {i \in 1..Len(Chain(sc, s)) : name \in DOMAIN sc[Chain(sc, s)[i]].bindings}

NearestOwner(sc, s, name) ==
  Chain(sc, s)[CHOOSE i \in Owners(sc, s, name) :
                 \A j \in Owners(sc, s, name) : i <= j]

\* C5: define(name, value) fails if and only if name is bound in the
\* immediate scope; a failed define changes no binding; a successful one
\* binds name in that scope alone, also when an ancestor binds it.
C5_DefineImmediateScope ==
  [][ last'.op = "define" =>
        LET s == last'.scope
            n == last'.name
        IN /\ (~last'.ok) <=> (n \in DOMAIN scopes[s].bindings)
           /\ ~last'.ok => scopes' = scopes
           /\ last'.ok =>
                /\ Len(scopes') = Len(scopes)
                /\ scopes'[s].bindings[n] = last'.value
                /\ DOMAIN scopes'[s].bindings = DOMAIN scopes[s].bindings \cup {n}
                /\ \A m \in DOMAIN scopes[s].bindings :
                     scopes'[s].bindings[m] = scopes[s].bindings[m]
                /\ \A t \in 1..Len(scopes) : t # s => scopes'[t] = scopes[t]
                /\ scopes'[s].parent = scopes[s].parent ]_vars

\* C5 witness: a define that succeeded in a scope whose ancestor binds the
\* same name (shadowing).
C5_Witness ==
  /\ last.op = "define"
  /\ last.ok
  /\ scopes[last.scope].parent # 0
  /\ Owners(scopes, scopes[last.scope].parent, last.name) # {}

\* C6: get(name) from a scope returns the value bound in the nearest scope
\* of its parent chain that binds name, and fails exactly when none does.
C6_LookupNearest ==
  last.op = "get" =>
    IF Owners(scopes, last.scope, last.name) = {}
      THEN ~last.ok
      ELSE /\ last.ok
           /\ last.value =
                scopes[NearestOwner(scopes, last.scope, last.name)].bindings[last.name]

\* C6 witness: a lookup answered by the nearest of two owners while the
\* farther one binds the name to another value.
C6_Witness ==
  /\ last.op = "get"
  /\ last.ok
  /\ Cardinality(Owners(scopes, last.scope, last.name)) >= 2
  /\ \E t \in 1..Len(scopes) :
       /\ last.name \in DOMAIN scopes[t].bindings
       /\ scopes[t].bindings[last.name] # last.value

\* C7: assign(name, value) rebinds name in the nearest owning scope of the
\* chain and changes nothing else; it never creates a binding; with no
\* owner it fails and changes nothing.
C7_AssignNearestOwner ==
  [][ last'.op = "assign" =>
        LET s == last'.scope
            n == last'.name
        IN /\ last'.ok <=> (Owners(scopes, s, n) # {})
           /\ ~last'.ok => scopes' = scopes
           /\ Len(scopes') = Len(scopes)
           /\ \A t \in 1..Len(scopes) :
                /\ DOMAIN scopes'[t].bindings = DOMAIN scopes[t].bindings
                /\ scopes'[t].parent = scopes[t].parent
                /\ \A m \in DOMAIN scopes[t].bindings :
                     scopes'[t].bindings[m] =
                       IF last'.ok /\ t = NearestOwner(scopes, s, n) /\ m = n
                         THEN last'.value
                         ELSE scopes[t].bindings[m] ]_vars

\* C7 witness: an assign that rebound the nearest of two owners while the
\* farther owner keeps another value for the same name.
C7_Witness ==
  /\ last.op = "assign"
  /\ last.ok
  /\ Cardinality(Owners(scopes, last.scope, last.name)) >= 2
  /\ \E t \in 1..Len(scopes) :
       /\ last.name \in DOMAIN scopes[t].bindings
       /\ scopes[t].bindings[last.name] # last.value

(***************************************************************************)
(* JavaScript values.  A value is a record tagged by k: a number, a        *)
(* string, a boolean, null, or a box value {type, value} as evalBoxExpr    *)
(* builds it (value maps the field names present to their values).         *)
(***************************************************************************)
\* a finite number is the fraction n/d in lowest terms (d = 1 for integers);
\* the model's arithmetic stays on non-negative numbers, so there is no -0
RECURSIVE gcd(_, _)
gcd(a, b) == IF b = 0 THEN a ELSE gcd(b, a % b)

JsFraction(n, d) == [k |-> "number", n |-> n \div gcd(n, d), d |-> d \div gcd(n, d)]

JsNumber(n) == [k |-> "number", n |-> n, d |-> 1]

JsInfinity == [k |-> "Infinity"]

JsNaN == [k |-> "NaN"]

JsUndefined == [k |-> "undefined"]

\* a template string `${a}: ${b}`: the sequence of its pieces, each a text
\* piece [t |-> ...] or a value standing for String(value)
Text(s) == [t |-> s]

\* the pieces of a string in normal form: a string value among them is
\* replaced by its own pieces and adjacent texts are joined
RECURSIVE Merge(_)
Merge(ps) ==
  IF ps = <<>> THEN <<>>
  ELSE LET rest == Merge(Tail(ps))
           head == ps[1]
       IN IF "t" \in DOMAIN head
            THEN IF rest # <<>> /\ "t" \in DOMAIN rest[1]
                   THEN <<Text(head.t \o rest[1].t)>> \o Tail(rest)
                   ELSE <<head>> \o rest
          ELSE IF head.k = "string" THEN Merge(head.pieces \o Tail(ps))
          ELSE <<head>> \o rest

JsTemplate(pieces) == [k |-> "string", pieces |-> Merge(pieces)]

JsString(s) == [k |-> "string", pieces |-> <<[t |-> s]>>]

JsBoolean(b) == [k |-> "boolean", b |-> b]

JsNull == [k |-> "null"]

JsBox(name, fields) == [k |-> "box", type |-> name, value |-> fields]

\* typeof value
typeof(value) ==
  CASE value.k \in {"number", "Infinity", "NaN"} -> "number"
    [] value.k = "undefined" -> "undefined"
    [] value.k = "string" -> "string"
    [] value.k = "boolean" -> "boolean"
    [] OTHER -> "object"

\* /^(0x)?[0-9a-fA-F]+$/.test(value), on the values of the model: the
\* pattern is applied to String(value).
HexTexts == {"beef"}

matchesAddress(value) ==
  \/ value.k = "number" /\ value.n >= 0 /\ value.d = 1
  \/ value.k = "string" /\ \E h \in HexTexts : value = JsString(h)

\* Parser.parseType: the type nodes of the model
SimpleType(v) == [type |-> "SimpleType", value |-> v]

BoxTypeNode(name) == [type |-> "BoxType", name |-> name]

NamedType(name) == [type |-> "NamedType", name |-> name]

\* Interpreter.initializeBuiltins: the seven simple types of the global scope
SimpleNames == {"num", "word", "bool", "time", "address", "mood", "any"}

initializeBuiltins == [n \in SimpleNames |-> [kind |-> "SimpleType", value |-> n]]

\* Environment.getType
RECURSIVE getType(_, _, _)
getType(sc, s, name) ==
  IF name \in DOMAIN sc[s].types
    THEN [ok |-> TRUE, value |-> sc[s].types[name]]
    ELSE IF sc[s].parent # 0
      THEN getType(sc, sc[s].parent, name)
      ELSE [ok |-> FALSE, error |-> "Undefined type"]

\* typeNode.value || typeNode.name || typeNode.type
typeKey(typeNode) ==
  IF "value" \in DOMAIN typeNode THEN typeNode.value
  ELSE IF "name" \in DOMAIN typeNode THEN typeNode.name
  ELSE typeNode.type

\* typeNode.value || typeNode.name : undefined when the node has neither
interpTypeKey(typeNode) ==
  IF "value" \in DOMAIN typeNode THEN typeNode.value
  ELSE IF "name" \in DOMAIN typeNode THEN typeNode.name
  ELSE "undefined"

Pass == [ok |-> TRUE]

Throw(msg) == [ok |-> FALSE, error |-> msg]

\* the SimpleType case of Environment.validateType
validateSimple(typeInfo, value) ==
  IF typeInfo.value = "num" /\ typeof(value) # "number" THEN Throw("Expected number")
  ELSE IF typeInfo.value = "word" /\ typeof(value) # "string" THEN Throw("Expected string")
  ELSE IF typeInfo.value = "bool" /\ typeof(value) # "boolean" THEN Throw("Expected boolean")
  ELSE IF typeInfo.value = "time" THEN Throw("Expected time")
  ELSE IF typeInfo.value = "address" /\ ~matchesAddress(value) THEN Throw("Expected address")
  ELSE IF typeInfo.value = "mood"
          /\ ~(\E m \in {"happy", "sad", "neutral"} : value = JsString(m))
    THEN Throw("Expected mood")
  ELSE Pass

\* Environment.validateType (environment.js; engine.js installs the same
\* text on Environment.prototype).  The box case walks the declared fields
\* in order and stops at the first failure.
RECURSIVE validateType(_, _, _, _), validateBoxFields(_, _, _, _, _)
validateBoxFields(sc, s, value, fields, i) ==
  IF i > Len(fields) THEN Pass
  ELSE IF ~(fields[i].name \in DOMAIN value.value) /\ ~fields[i].defaultValue
    THEN Throw("Missing field")
  ELSE IF fields[i].name \in DOMAIN value.value
          /\ ~validateType(sc, s, value.value[fields[i].name], fields[i].type).ok
    THEN validateType(sc, s, value.value[fields[i].name], fields[i].type)
    ELSE validateBoxFields(sc, s, value, fields, i + 1)

validateType(sc, s, value, typeNode) ==
  LET t == getType(sc, s, typeKey(typeNode))
  IN IF ~t.ok THEN Throw("Undefined type")
     ELSE LET typeInfo == t.value
          IN CASE typeInfo.kind = "SimpleType" -> validateSimple(typeInfo, value)
               [] typeInfo.kind = "BoxType" ->
                    IF typeof(value) # "object" THEN Throw("Expected box")
                    ELSE IF value.k = "null" THEN Throw("TypeError")
                    ELSE IF value.type # typeInfo.name THEN Throw("Expected box")
                    ELSE validateBoxFields(sc, s, value, typeInfo.fields, 1)
               [] OTHER -> Throw("Unsupported type")

\* Interpreter.validateType (interpreter.js): three simple kinds, and a box
\* case that tests the box name and the presence of the fields only.
RECURSIVE interpBoxFields(_, _, _)
interpBoxFields(value, fields, i) ==
  IF i > Len(fields) THEN Pass
  ELSE IF ~(fields[i].name \in DOMAIN value.value) /\ ~fields[i].defaultValue
    THEN Throw("Missing field")
    ELSE interpBoxFields(value, fields, i + 1)

Interpreter_validateType(sc, s, value, typeNode) ==
  LET t == getType(sc, s, interpTypeKey(typeNode))
  IN IF ~t.ok THEN Throw("Undefined type")
     ELSE LET typeInfo == t.value
          IN CASE typeInfo.kind = "SimpleType" ->
                    IF typeInfo.value = "num" /\ typeof(value) # "number"
                      THEN Throw("Expected number")
                    ELSE IF typeInfo.value = "word" /\ typeof(value) # "string"
                      THEN Throw("Expected string")
                    ELSE IF typeInfo.value = "bool" /\ typeof(value) # "boolean"
                      THEN Throw("Expected boolean")
                    ELSE Pass
               [] typeInfo.kind = "BoxType" ->
                    IF typeof(value) # "object" THEN Throw("Expected box")
                    ELSE IF value.k = "null" THEN Throw("TypeError")
                    ELSE IF value.type # typeInfo.name THEN Throw("Expected box")
                    ELSE interpBoxFields(value, typeInfo.fields, 1)
               [] OTHER -> Throw("Unsupported type")

\* Interpreter.evalBoxDecl / Engine.compileBoxDecl: the type definition a
\* box declaration stores; defaultValue is the truthiness of the field's
\* default expression node (null when the field declares none).
boxType(name, fields) == [kind |-> "BoxType", name |-> name, fields |-> fields]

(***************************************************************************)
(* SpecType: a pack scope (scope 2, child of the global scope 1 with the   *)
(* built-in types) declares a box type profile and binds p to a value;     *)
(* both validators are then applied to p's value from the pack scope.      *)
(***************************************************************************)
FieldTypes == {SimpleType("num"), SimpleType("word")}

BoxDecls ==
  {boxType("profile",
           <<[name |-> "name", type |-> t1, defaultValue |-> d1],
             [name |-> "age", type |-> t2, defaultValue |-> d2]>>) :
     t1 \in FieldTypes, t2 \in FieldTypes, d1 \in BOOLEAN, d2 \in BOOLEAN}

FieldValues == {JsNumber(5), JsString("Alice")}

FieldMaps ==
  UNION {[fs -> FieldValues] : fs \in SUBSET {"name", "age"}}

TestValues ==
  {JsBox(n, f) : n \in {"profile", "other"}, f \in FieldMaps}
    \cup {JsNumber(5), JsString("Alice"), JsString("beef"), JsBoolean(TRUE), JsNull}

TypeNodes ==
  {BoxTypeNode("profile"), NamedType("profile"), BoxTypeNode("missing"),
   SimpleType("num"), SimpleType("word"), SimpleType("bool"),
   SimpleType("address"), SimpleType("any")}

InitType ==
  /\ cls = "interpreter.js"
  /\ \E decl \in BoxDecls, value \in TestValues :
       scopes = <<[parent |-> 0, bindings |-> <<>>, types |-> initializeBuiltins],
                  [parent |-> 1, bindings |-> [n \in {"p"} |-> value],
                   types |-> [n \in {"profile"} |-> decl]]>>
  /\ last = [op |-> "new"]
  /\ out = <<>>
  /\ IdleTry
  /\ IdleRun
  /\ IdleFront

ValidateTypeStepCaching ==
  \E typeNode \in TypeNodes :
    LET r == validateType(scopes, 2, scopes[2].bindings["p"], typeNode)
        t == getType(scopes, 2, typeKey(typeNode))
    IN /\ last' = [op |-> "validateType", validator |-> "Environment",
                   typeNode |-> typeNode, ok |-> r.ok]
       /\ scopes' = IF t.ok
                      THEN [scopes EXCEPT ![2].types =
                              [n \in DOMAIN scopes[2].types \cup {typeKey(typeNode)} |->
                                 IF n = typeKey(typeNode) THEN t.value
                                                          ELSE scopes[2].types[n]]]
                      ELSE scopes
       /\ UNCHANGED <<cls, notEnv>>

ValidateTypeStep ==
  \E typeNode \in TypeNodes :
    LET r == validateType(scopes, 2, scopes[2].bindings["p"], typeNode)
    IN /\ last' = [op |-> "validateType", validator |-> "Environment",
                   typeNode |-> typeNode, ok |-> r.ok]
       /\ UNCHANGED <<cls, scopes, notEnv>>

InterpreterValidateTypeStep ==
  \E typeNode \in TypeNodes :
    LET r == Interpreter_validateType(scopes, 2, scopes[2].bindings["p"], typeNode)
    IN /\ last' = [op |-> "validateType", validator |-> "Interpreter",
                   typeNode |-> typeNode, ok |-> r.ok]
       /\ UNCHANGED <<cls, scopes, notEnv>>

\* a later declaration of the pack rebinding nothing: `set p = value`
SetSubjectStep ==
  \E value \in TestValues :
    LET r == assign(scopes, 2, "p", value)
    IN /\ scopes' = r.sc
       /\ last' = [op |-> "assign", scope |-> 2, name |-> "p", ok |-> r.ok]
       /\ UNCHANGED <<cls, notEnv>>

NextType == ValidateTypeStep \/ InterpreterValidateTypeStep \/ SetSubjectStep

SpecType == InitType /\ [][NextType]_vars

HasSimpleType(value, typeNode) ==
  CASE typeNode.value = "num" -> value.k = "number"
    [] typeNode.value = "word" -> value.k = "string"
    [] OTHER -> FALSE

BoxConforms(value, decl) ==
  /\ value.k = "box"
  /\ value.type = decl.name
  /\ \A i \in 1..Len(decl.fields) :
       LET f == decl.fields[i]
       IN IF f.name \in DOMAIN value.value
            THEN HasSimpleType(value.value[f.name], f.type)
            ELSE f.defaultValue

\* C9: validating a value against the declared box type succeeds exactly
\* when the box name matches, every field without a default is present and
\* every present field's value validates against the field's declared type.
C9_BoxValidation ==
  (last.op = "validateType" /\ last.typeNode = BoxTypeNode("profile")) =>
    (last.ok <=> BoxConforms(scopes[2].bindings["p"], scopes[2].types["profile"]))

\* The same statement for Environment.validateType alone.
EnvironmentBoxValidation ==
  (last.op = "validateType" /\ last.validator = "Environment"
     /\ last.typeNode \in {BoxTypeNode("profile"), NamedType("profile")}) =>
    (last.ok <=> BoxConforms(scopes[2].bindings["p"], scopes[2].types["profile"]))

(***************************************************************************)
(* JavaScript operators on the values of the model.                        *)
(***************************************************************************)
truthy(value) ==
  CASE value.k = "boolean" -> value.b
    [] value.k = "number" -> value.n # 0
    [] value.k \in {"NaN", "undefined", "null"} -> FALSE
    [] OTHER -> TRUE

\* ToNumber of the non-object values
ToNumber(value) ==
  CASE value.k \in {"number", "Infinity", "NaN"} -> value
    [] value.k = "null" -> JsNumber(0)
    [] value.k = "boolean" -> JsNumber(IF value.b THEN 1 ELSE 0)
    [] OTHER -> JsNaN

pieces(value) == IF value.k = "string" THEN value.pieces ELSE <<value>>

\* left + right
jsAdd(left, right) ==
  IF left.k = "string" \/ right.k = "string"
    THEN JsTemplate(pieces(left) \o pieces(right))
    ELSE LET a == ToNumber(left)
             b == ToNumber(right)
         IN CASE a.k = "NaN" \/ b.k = "NaN" -> JsNaN
              [] a.k = "Infinity" \/ b.k = "Infinity" -> JsInfinity
              [] OTHER -> JsFraction(a.n * b.d + b.n * a.d, a.d * b.d)

\* left / right : a zero divisor gives Infinity or NaN, never an exception
jsDiv(left, right) ==
  LET a == ToNumber(left)
      b == ToNumber(right)
  IN CASE a.k = "NaN" \/ b.k = "NaN" -> JsNaN
       [] a.k = "Infinity" -> IF b.k = "Infinity" THEN JsNaN ELSE JsInfinity
       [] b.k = "Infinity" -> JsNumber(0)
       [] b.n = 0 -> IF a.n = 0 THEN JsNaN ELSE JsInfinity
       [] OTHER -> JsFraction(a.n * b.d, a.d * b.n)

\* left % right : a zero divisor gives NaN, never an exception
jsMod(left, right) ==
  LET a == ToNumber(left)
      b == ToNumber(right)
  IN CASE a.k = "NaN" \/ b.k = "NaN" -> JsNaN
       [] a.k = "Infinity" -> JsNaN
       [] b.k = "Infinity" -> a
       [] b.n = 0 -> JsNaN
       [] OTHER -> JsFraction((a.n * b.d) % (b.n * a.d), a.d * b.d)

(***************************************************************************)
(* Interpreter: the tree-walking evaluator.  An evaluation returns         *)
(* [ok |-> TRUE, value, sc, out] or, for a thrown Error,                   *)
(* [ok |-> FALSE, error, sc, out]: sc is the scope arena and out the       *)
(* console output as they are when the evaluation ends.  An Error is its   *)
(* message, the pieces of a string in normal form.                         *)
(***************************************************************************)
Done(value, sc, o) == [ok |-> TRUE, value |-> value, sc |-> sc, out |-> o]

Fail(error, sc, o) == [ok |-> FALSE, error |-> Merge(error), sc |-> sc, out |-> o]

UndefinedVariable(name) == Merge(<<Text("Undefined variable "), Text(name)>>)

\* the handlers an evaluation registered with eventListeners.set, in order
subsOf(r) == IF "subs" \in DOMAIN r THEN r.subs ELSE <<>>

withSubs(r, subs) == IF subs = <<>> THEN r ELSE [subs |-> subs \o subsOf(r)] @@ r

\* Map.set(topic, handler) for the handlers from i on: the later one stays
RECURSIVE subscribed(_, _, _)
subscribed(listeners, subs, i) ==
  IF i > Len(subs) THEN listeners
  ELSE subscribed((subs[i].topic :> subs[i]) @@ listeners, subs, i + 1)

AlreadyDefined(name) ==
  Merge(<<Text("Variable "), Text(name), Text(" already defined in this scope")>>)

\* Interpreter.evalBinaryExpr, the switch on node.op
binaryOp(op, left, right) ==
  CASE op = "+" -> jsAdd(left, right)
    [] op = "/" -> jsDiv(left, right)
    [] op = "%" -> jsMod(left, right)

\* Interpreter.evalExpr; the name of an Identifier node and the characters
\* of a Text node are held as Text(s)
RECURSIVE evalExpr(_, _, _), evalElements(_, _, _, _)
evalExpr(node, sc, s) ==
  CASE node.type = "Number" -> [ok |-> TRUE, value |-> node.value]
    [] node.type = "Text" -> [ok |-> TRUE, value |-> JsString(node.value.t)]
    [] node.type = "Literal" -> [ok |-> TRUE, value |-> node.value]
    [] node.type = "Identifier" ->
         LET found(g) ==
               IF g.ok THEN [ok |-> TRUE, value |-> g.value]
               ELSE [ok |-> FALSE, error |-> UndefinedVariable(node.value.t)]
         IN found(get(sc, s, node.value.t))
    [] node.type = "BinaryExpr" ->
         LET both(left, right) ==
               IF ~left.ok THEN left
               ELSE IF ~right.ok THEN right
               ELSE [ok |-> TRUE,
                     value |-> binaryOp(node.op, left.value, right.value)]
         IN both(evalExpr(node.left, sc, s), evalExpr(node.right, sc, s))
    [] node.type = "ThrowExpr" ->
         LET throw(value) ==
               IF ~value.ok THEN value
               ELSE [ok |-> FALSE,
                     error |-> Merge(<<Text(node.name), Text(": "), value.value>>)]
         IN throw(evalExpr(node.expr, sc, s))
    [] node.type = "SmallFnExpr" ->
         \* Interpreter.evalSmallFnExpr: the closure over node and env
         [ok |-> TRUE,
          value |-> [k |-> "object", type |-> "Function", args |-> node.args,
                     expr |-> node.expr, grab |-> node.grab, env |-> s]]
    [] node.type = "ListExpr" ->
         \* Interpreter.evalListExpr: an array
         LET list(values) ==
               IF ~values.ok THEN values
               ELSE [ok |-> TRUE, value |-> [k |-> "array", items |-> values.value]]
         IN list(evalElements(node.elements, 1, sc, s))

\* Promise.all(elements.map(elem => this.evalExpr(elem, env))), from element
\* i on: the values, or the first Error
evalElements(elements, i, sc, s) ==
  LET rest(value, values) ==
        IF ~value.ok THEN value
        ELSE IF ~values.ok THEN values
        ELSE [ok |-> TRUE, value |-> <<value.value>> \o values.value]
  IN IF i > Len(elements) THEN [ok |-> TRUE, value |-> <<>>]
     ELSE rest(evalExpr(elements[i], sc, s), evalElements(elements, i + 1, sc, s))

\* the config object of evalJobDecl / compileJobDecl:
\* config[field.type] = field.value, for the fields from i on
RECURSIVE configFrom(_, _)
configFrom(fields, i) ==
  IF i > Len(fields) THEN [type \in {} |-> JsNull]
  ELSE configFrom(fields, i + 1) @@ (fields[i].type :> fields[i].value)

\* config.args.forEach((arg, index) => jobEnv.define(arg.name, args[index])),
\* from parameter i on; an argument that was not passed is undefined
RECURSIVE defineArgs(_, _, _, _, _)
defineArgs(sc, s, names, args, i) ==
  LET next(d) == IF d.ok THEN defineArgs(d.sc, s, names, args, i + 1)
                 ELSE [ok |-> FALSE, sc |-> sc, name |-> names[i]]
  IN IF i > Len(names) THEN [ok |-> TRUE, sc |-> sc]
     ELSE next(define(sc, s, names[i],
                      IF i <= Len(args) THEN args[i] ELSE JsUndefined))

\* the names of the args field of a job's config
ArgNames(config) ==
  IF "args" \in DOMAIN config
    THEN [j \in 1..Len(config.args) |-> config.args[j].name]
    ELSE <<>>

RECURSIVE evalAction(_, _, _, _), executeActionsFrom(_, _, _, _, _, _),
          executeActions(_, _, _, _), evalMatchAction(_, _, _, _),
          evalIfAction(_, _, _, _), evalCall(_, _, _, _), execute(_, _, _, _),
          evalLoopFrom(_, _, _, _, _, _, _), evalLoopAction(_, _, _, _),
          evalTryAction(_, _, _, _), recovered(_, _, _)

\* what a string gives where a type node is expected: evalNode and
\* evalAction choose evalVarDecl and evalReturnAction by node.type, so the
\* node.type these methods (and compileVarDecl, compileReturnAction) read as
\* the type annotation is the string 'VarDecl' or 'ReturnAction': it is
\* truthy, and its properties type, value and name are undefined
TagAsTypeNode == [type |-> "undefined"]

\* the array elements bound to the names of a Split target by op (define
\* or assign), from name i on; index >= value.length throws
RECURSIVE destructure(_, _, _, _, _, _, _)
destructure(op, names, items, i, sc, s, o) ==
  LET next(d) ==
        IF d.ok THEN destructure(op, names, items, i + 1, d.sc, s, o)
        ELSE Fail(IF op = "define" THEN AlreadyDefined(names[i])
                  ELSE <<Text("Cannot assign to undefined variable "), Text(names[i])>>,
                  sc, o)
  IN IF i > Len(names) THEN Done(JsNull, sc, o)
     ELSE IF i > Len(items)
       THEN Fail(<<Text("Not enough values to destructure at "), Text(names[i])>>, sc, o)
     ELSE next(IF op = "define" THEN define(sc, s, names[i], items[i])
               ELSE assign(sc, s, names[i], items[i]))

\* the tail of evalVarDecl (op define, target node.names) and of
\* evalSetAction (op assign, target node.target): the value is returned
bindTarget(op, target, value, sc, s, o) ==
  LET named(d) ==
        IF d.ok THEN Done(value, d.sc, o)
        ELSE Fail(IF op = "define" THEN AlreadyDefined(target.value)
                  ELSE <<Text("Cannot assign to undefined variable "),
                         Text(target.value)>>, sc, o)
      split(r) == IF r.ok THEN Done(value, r.sc, r.out) ELSE r
  IN IF target.type = "Name"
       THEN named(IF op = "define" THEN define(sc, s, target.value, value)
                  ELSE assign(sc, s, target.value, value))
     ELSE IF value.k # "array"
       THEN Fail(<<Text("Expected array for destructuring, got "),
                   Text(typeof(value))>>, sc, o)
     ELSE split(destructure(op, target.names, value.items, 1, sc, s, o))

\* Interpreter.evalVarDecl: node.type is truthy and not an InferType node,
\* validateType comes before the names are bound
evalVarDecl(node, sc, s, o) ==
  LET checked(value, valid) ==
        IF ~valid.ok
          THEN Fail(<<Text(valid.error), Text(" "), Text(interpTypeKey(TagAsTypeNode))>>,
                    sc, o)
          ELSE bindTarget("define", node.names, value, sc, s, o)
      evaluated(value) ==
        IF ~value.ok THEN Fail(value.error, sc, o)
        ELSE checked(value.value,
                     Interpreter_validateType(sc, s, value.value, TagAsTypeNode))
  IN evaluated(evalExpr(node.value, sc, s))

\* Promise.all(node.args.map(arg => this.evalExpr(arg, env))), from
\* argument i on: the values, or the first Error
RECURSIVE evalArgs(_, _, _, _)
evalArgs(args, i, sc, s) ==
  LET rest(value, values) ==
        IF ~value.ok THEN value
        ELSE IF ~values.ok THEN values
        ELSE [ok |-> TRUE, value |-> <<value.value>> \o values.value]
  IN IF i > Len(args) THEN [ok |-> TRUE, value |-> <<>>]
     ELSE rest(evalExpr(args[i], sc, s), evalArgs(args, i + 1, sc, s))

\* job.execute(args) of Interpreter.evalJobDecl, for a job without on_error:
\* the body runs in jobEnv, a new child of the scope of the declaration
execute(job, args, sc, o) ==
  LET jobEnv == Len(sc) + 1
      bound(d) ==
        IF d.ok THEN executeActions(job.actions, d.sc, jobEnv, o)
        ELSE Fail(AlreadyDefined(d.name), d.sc, o)
  IN bound(defineArgs(createChild(sc, job.env), jobEnv, ArgNames(job.config),
                      args, 1))

\* Interpreter.evalCall
evalCall(node, sc, s, o) ==
  LET called(fn, args) ==
        IF ~args.ok THEN Fail(args.error, sc, o)
        ELSE execute(fn, args.value, sc, o)
      found(g) ==
        IF ~g.ok THEN Fail(UndefinedVariable(node.name), sc, o)
        ELSE IF g.value.k = "object" /\ g.value.type = "Job"
          THEN called(g.value, evalArgs(node.args, 1, sc, s))
        ELSE Fail(<<Text("Function "), Text(node.name),
                    Text(" not found or not callable")>>, sc, o)
  IN found(get(sc, s, node.name))

\* this.evalExpr(node, env) where node may be a call, which runs actions
evalExprOrCall(node, sc, s, o) ==
  LET pure(value) ==
        IF value.ok THEN Done(value.value, sc, o) ELSE Fail(value.error, sc, o)
  IN IF node.type = "Call" THEN evalCall(node, sc, s, o)
     ELSE pure(evalExpr(node, sc, s))

\* Interpreter.evalAction, with evalSayAction / evalCheckAction /
\* evalStoreAction in place
evalAction(node, sc, s, o) ==
  LET stored(value, d) ==
        IF d.ok THEN Done(JsNull, d.sc, value.out)
        ELSE Fail(AlreadyDefined(node.key), value.sc, value.out)
      returned(value, valid) ==
        IF ~valid.ok
          THEN Fail(<<Text(valid.error), Text(" "), Text(interpTypeKey(TagAsTypeNode))>>,
                    value.sc, value.out)
          ELSE Done(value.value, value.sc, value.out)
      act(value) ==
        IF ~value.ok THEN value
        ELSE CASE node.type = "SayAction" ->
                    Done(JsNull, value.sc, Append(value.out, value.value))
               [] node.type = "CheckAction" ->
                    IF ~truthy(value.value)
                      THEN Fail(<<Text(node.message)>>, value.sc, value.out)
                      ELSE Done(JsNull, value.sc, value.out)
               [] node.type = "StoreAction" ->
                    stored(value, define(value.sc, s, node.key, value.value))
               [] node.type = "SetAction" ->
                    \* Interpreter.evalSetAction
                    bindTarget("assign", node.target, value.value, value.sc, s,
                               value.out)
               [] node.type = "ReturnAction" ->
                    \* Interpreter.evalReturnAction: node.type is truthy
                    returned(value,
                             Interpreter_validateType(value.sc, s, value.value,
                                                      TagAsTypeNode))
  IN CASE node.type = "MatchAction" -> evalMatchAction(node, sc, s, o)
       [] node.type = "IfAction" -> evalIfAction(node, sc, s, o)
       [] node.type = "LoopAction" -> evalLoopAction(node, sc, s, o)
       [] node.type = "TryAction" -> evalTryAction(node, sc, s, o)
       [] node.type = "SubscribeAction" ->
            \* Interpreter.evalSubscribeAction: the handler closes over node
            \* and env
            withSubs(Done(JsNull, sc, o),
                     <<[topic |-> node.topic, actions |-> node.actions,
                        onError |-> node.onError, env |-> s]>>)
       [] OTHER ->
            act(evalExprOrCall(IF node.type \in {"StoreAction", "SetAction",
                                                 "ReturnAction"}
                                 THEN node.value ELSE node.expr, sc, s, o))

\* Interpreter.executeActions from action i on, result being the value of
\* the last action run so far
executeActionsFrom(actions, i, result, sc, s, o) ==
  IF i > Len(actions) THEN Done(result, sc, o)
  ELSE LET then(r) ==
             IF ~r.ok THEN r
             ELSE withSubs(executeActionsFrom(actions, i + 1, r.value, r.sc, s, r.out),
                           subsOf(r))
       IN then(evalAction(actions[i], sc, s, o))

executeActions(actions, sc, s, o) == executeActionsFrom(actions, 1, JsNull, sc, s, o)

\* the catch clause that evalIfAction, evalLoopAction, evalWhileAction and
\* evalMatchAction share, r being how the guarded part ended in scope s: an
\* Error goes to the on_error handler when the node has one.  A node held
\* without an onError field is a node whose onError is null.
recovered(node, r, s) ==
  LET errorEnv == Len(r.sc) + 1
      child == createChild(r.sc, s)
      handler == node.onError
  IN IF r.ok \/ "onError" \notin DOMAIN node THEN r
     ELSE IF handler = JsNull THEN r
     ELSE executeActions(handler.body,
                         IF handler.errorName # JsNull
                           THEN define(child, errorEnv, handler.errorName.t,
                                       JsTemplate(r.error)).sc
                           ELSE child,
                         errorEnv, r.out)

\* Interpreter.evalMatchAction for a case list: the loop returns at its
\* first case when that case is a Name or an Else case
evalMatchAction(node, sc, s, o) ==
  LET caseEnv == Len(sc) + 1
      first == node.body.cases[1]
      matched(value) ==
        IF ~value.ok THEN Fail(value.error, sc, o)
        ELSE IF node.body.cases = <<>>
          THEN Fail(<<Text("No matching case for value "), value.value>>, sc, o)
        ELSE IF first.pattern.type = "Else"
          THEN recovered(node, executeActions(first.actions, sc, s, o), s)
        ELSE recovered(node,
                       executeActions(first.actions,
                                      define(createChild(sc, s), caseEnv,
                                             first.pattern.name, value.value).sc,
                                      caseEnv, o),
                       s)
  IN matched(evalExpr(node.expr, sc, s))

\* Interpreter.evalIfAction
evalIfAction(node, sc, s, o) ==
  LET branch(condition) ==
        IF ~condition.ok THEN Fail(condition.error, sc, o)
        ELSE IF truthy(condition.value)
          THEN recovered(node, executeActions(node.thenBranch, sc, s, o), s)
        ELSE recovered(node, executeActions(node.elseBranch, sc, s, o), s)
  IN branch(evalExpr(node.condition, sc, s))

\* the for loop of Interpreter.evalLoopAction from counter i on, the bounds
\* being integers: each turn makes loopEnv and runs the body in it
evalLoopFrom(node, i, end, result, sc, s, o) ==
  LET loopEnv == Len(sc) + 1
      names == IF node.target.type = "Name" THEN <<node.target.value>>
               ELSE node.target.names
      bound(d) ==
        IF ~d.ok THEN Fail(AlreadyDefined(d.name), d.sc, o)
        ELSE executeActions(node.body, d.sc, loopEnv, o)
      turn(r) ==
        IF ~r.ok THEN r
        ELSE evalLoopFrom(node, i + 1, end, r.value, r.sc, s, r.out)
  IN IF i > end THEN Done(result, sc, o)
     ELSE turn(bound(defineArgs(createChild(sc, s), loopEnv, names,
                                <<JsNumber(i)>>, 1)))

\* Interpreter.evalLoopAction
evalLoopAction(node, sc, s, o) ==
  LET ranged(start, end) ==
        IF ~start.ok THEN Fail(start.error, sc, o)
        ELSE IF ~end.ok THEN Fail(end.error, sc, o)
        ELSE recovered(node,
                       evalLoopFrom(node, start.value.n, end.value.n, JsNull, sc, s, o),
                       s)
  IN ranged(evalExpr(node.range.start, sc, s), evalExpr(node.range.end, sc, s))

\* Interpreter.evalTryAction in one piece (SpecTry takes it step by step);
\* the finally block is held in a record, as in SpecTry
evalTryAction(node, sc, s, o) ==
  LET finally(r) ==
        IF node.finallyBlock = JsNull THEN Done(JsNull, r.sc, r.out)
        ELSE executeActions(node.finallyBlock.actions, r.sc, s, r.out)
      after(f) == IF ~f.ok THEN f ELSE Done(JsNull, f.sc, f.out)
      handled(tried, f) ==
        IF ~f.ok THEN f
        ELSE IF node.catchBlock = JsNull THEN Fail(tried.error, f.sc, f.out)
        ELSE after(finally(f))
      caught(tried, c) == IF ~c.ok THEN c ELSE handled(tried, finally(c))
      catch(tried) ==
        IF node.catchBlock = JsNull THEN handled(tried, finally(tried))
        ELSE caught(tried,
                    executeActions(node.catchBlock.actions,
                                   define(createChild(tried.sc, s), Len(tried.sc) + 1,
                                          node.catchBlock.name,
                                          JsTemplate(tried.error)).sc,
                                   Len(tried.sc) + 1, tried.out))
      try(tried) == IF tried.ok THEN tried ELSE catch(tried)
  IN try(executeActions(node.tryBlock, sc, s, o))

(***************************************************************************)
(* SpecTry: one execution of Interpreter.evalTryAction(node, env), env     *)
(* being scope 1.  The blocks hold say and check actions; a check of a     *)
(* false literal is the action that throws.  tpc follows the source:       *)
(*   "try"       line 900   return await executeActions(tryBlock, env)     *)
(*   "handler"   line 902   the catch clause is entered with e             *)
(*   "catch"     line 905   executeActions(catchBlock.actions, catchEnv)   *)
(*   "finally1"  line 907   the finally block inside the catch clause      *)
(*   "rethrow"   line 910   if (!tryNode.catchBlock) throw e                  *)
(*   "finally2"  line 914   the finally block after the try statement      *)
(*   "return"    line 917   return null                                    *)
(***************************************************************************)
MaxBlock == 2

Say(v) == [type |-> "SayAction", expr |-> [type |-> "Number", value |-> JsNumber(v)]]

Check(b, message) ==
  [type |-> "CheckAction", expr |-> [type |-> "Literal", value |-> JsBoolean(b)],
   message |-> message]

RECURSIVE SeqsUpTo(_, _)
SeqsUpTo(S, n) ==
  IF n = 0 THEN {<<>>}
  ELSE SeqsUpTo(S, n - 1) \cup
       {Append(q, x) : q \in {r \in SeqsUpTo(S, n - 1) : Len(r) = n - 1}, x \in S}

SayIdentifier(name) ==
  [type |-> "SayAction", expr |-> [type |-> "Identifier", value |-> Text(name)]]

Blocks(v, message) == SeqsUpTo({Say(v), Check(FALSE, message)}, MaxBlock)

CatchBlocks ==
  SeqsUpTo({Say(2), Check(FALSE, "catch failed"), SayIdentifier("e")}, MaxBlock)

\* Parser.parseOnError for on_error (errorName: error x) { actions }; the
\* name is held as Text(errorName), null when the handler names no error
OnError(errorName, actions) ==
  [type |-> "OnError", errorName |-> Text(errorName), body |-> actions]

\* the TryAction nodes of parseTryAction; the array of a finally block is
\* held in a record so that it compares with null
TryActions ==
  {[type |-> "TryAction", tryBlock |-> tb, tryOnError |-> oe,
    catchBlock |-> cb, finallyBlock |-> fb] :
     tb \in Blocks(1, "try failed"),
     oe \in {JsNull, OnError("err", <<Say(4)>>)},
     cb \in {JsNull} \cup
            {[name |-> "e", errorName |-> "low_trust", actions |-> a] :
               a \in CatchBlocks},
     fb \in {JsNull} \cup {[actions |-> a] : a \in Blocks(3, "finally failed")}}

InitTry ==
  /\ cls = "interpreter.js"
  /\ last = [op |-> "new"]
  /\ scopes = <<NewEnvironment(0)>>
  /\ out = <<>>
  /\ tryNode \in TryActions
  /\ tpc = "try"
  /\ tidx = 1
  /\ e = [k |-> "none"]
  /\ outcome = [kind |-> "none"]
  /\ finallyRuns = 0
  /\ ran = <<>>
  /\ catchEnv = 0
  /\ IdleRun
  /\ IdleFront

\* one action of a block run in scope s: the state after it and its result
BlockAction(block, name, s) ==
  LET r == evalAction(block[tidx], scopes, s, out)
  IN [r |-> r, ran |-> Append(ran, <<name, tidx>>)]

\* line 900: the try block; when it completes its value is returned at once
TryBlockStep ==
  /\ tpc = "try"
  /\ IF tidx <= Len(tryNode.tryBlock)
       THEN LET b == BlockAction(tryNode.tryBlock, "try", 1)
            IN /\ ran' = b.ran
               /\ scopes' = b.r.sc
               /\ out' = b.r.out
               /\ IF b.r.ok
                    THEN /\ tidx' = tidx + 1
                         /\ UNCHANGED <<tpc, e>>
                    ELSE /\ tpc' = "handler"
                         /\ e' = [k |-> "Error", message |-> b.r.error]
                         /\ UNCHANGED tidx
               /\ UNCHANGED outcome
       ELSE /\ tpc' = "done"
            /\ outcome' = [kind |-> "return", value |-> JsNull]
            /\ UNCHANGED <<ran, scopes, out, tidx, e>>
  /\ UNCHANGED <<tryNode, finallyRuns, catchEnv, notTry>>

\* lines 902-904: with a catch block, a child scope binds the catch name
CatchEnter ==
  /\ tpc = "handler"
  /\ IF tryNode.catchBlock # JsNull
       THEN /\ scopes' = define(createChild(scopes, 1), Len(scopes) + 1,
                                tryNode.catchBlock.name, JsTemplate(e.message)).sc
            /\ catchEnv' = Len(scopes) + 1
            /\ tpc' = "catch"
            /\ tidx' = 1
       ELSE /\ tpc' = "finally1"
            /\ UNCHANGED <<scopes, catchEnv, tidx>>
  /\ UNCHANGED <<tryNode, e, outcome, finallyRuns, ran, out, notTry>>

\* line 905: the catch block; an error of its own leaves evalTryAction
CatchBlockStep ==
  /\ tpc = "catch"
  /\ IF tidx <= Len(tryNode.catchBlock.actions)
       THEN LET b == BlockAction(tryNode.catchBlock.actions, "catch", catchEnv)
            IN /\ ran' = b.ran
               /\ scopes' = b.r.sc
               /\ out' = b.r.out
               /\ IF b.r.ok
                    THEN /\ tidx' = tidx + 1
                         /\ UNCHANGED <<tpc, outcome>>
                    ELSE /\ tpc' = "done"
                         /\ outcome' = [kind |-> "throw", message |-> b.r.error]
                         /\ UNCHANGED tidx
       ELSE /\ tpc' = "finally1"
            /\ UNCHANGED <<ran, scopes, out, tidx, outcome>>
  /\ UNCHANGED <<tryNode, e, finallyRuns, catchEnv, notTry>>

\* lines 907-909: inside the catch clause, the finally block if there is one
FinallyInHandlerEnter ==
  /\ tpc = "finally1"
  /\ IF tryNode.finallyBlock # JsNull
       THEN /\ tpc' = "finally1_run"
            /\ tidx' = 1
            /\ finallyRuns' = finallyRuns + 1
       ELSE /\ tpc' = "rethrow"
            /\ UNCHANGED <<tidx, finallyRuns>>
  /\ UNCHANGED <<tryNode, e, outcome, ran, catchEnv, scopes, out, notTry>>

FinallyInHandlerStep ==
  /\ tpc = "finally1_run"
  /\ IF tidx <= Len(tryNode.finallyBlock.actions)
       THEN LET b == BlockAction(tryNode.finallyBlock.actions, "finally", 1)
            IN /\ ran' = b.ran
               /\ scopes' = b.r.sc
               /\ out' = b.r.out
               /\ IF b.r.ok
                    THEN /\ tidx' = tidx + 1
                         /\ UNCHANGED <<tpc, outcome>>
                    ELSE /\ tpc' = "done"
                         /\ outcome' = [kind |-> "throw", message |-> b.r.error]
                         /\ UNCHANGED tidx
       ELSE /\ tpc' = "rethrow"
            /\ UNCHANGED <<ran, scopes, out, tidx, outcome>>
  /\ UNCHANGED <<tryNode, e, finallyRuns, catchEnv, notTry>>

\* lines 910-912: without a catch block the caught error is thrown again
RethrowAlways ==
  /\ tpc = "rethrow"
  /\ tpc' = "done"
  /\ outcome' = [kind |-> "throw", message |-> e.message]
  /\ UNCHANGED <<tryNode, e, tidx, finallyRuns, ran, catchEnv, scopes, out, notTry>>

Rethrow ==
  /\ tpc = "rethrow"
  /\ IF tryNode.catchBlock = JsNull
       THEN /\ tpc' = "done"
            /\ outcome' = [kind |-> "throw", message |-> e.message]
       ELSE /\ tpc' = "finally2"
            /\ UNCHANGED outcome
  /\ UNCHANGED <<tryNode, e, tidx, finallyRuns, ran, catchEnv, scopes, out, notTry>>

\* lines 914-916: after the try statement, the finally block once more
FinallyAfterEnter ==
  /\ tpc = "finally2"
  /\ IF tryNode.finallyBlock # JsNull
       THEN /\ tpc' = "finally2_run"
            /\ tidx' = 1
            /\ finallyRuns' = finallyRuns + 1
       ELSE /\ tpc' = "return"
            /\ UNCHANGED <<tidx, finallyRuns>>
  /\ UNCHANGED <<tryNode, e, outcome, ran, catchEnv, scopes, out, notTry>>

FinallyAfterStep ==
  /\ tpc = "finally2_run"
  /\ IF tidx <= Len(tryNode.finallyBlock.actions)
       THEN LET b == BlockAction(tryNode.finallyBlock.actions, "finally", 1)
            IN /\ ran' = b.ran
               /\ scopes' = b.r.sc
               /\ out' = b.r.out
               /\ IF b.r.ok
                    THEN /\ tidx' = tidx + 1
                         /\ UNCHANGED <<tpc, outcome>>
                    ELSE /\ tpc' = "done"
                         /\ outcome' = [kind |-> "throw", message |-> b.r.error]
                         /\ UNCHANGED tidx
       ELSE /\ tpc' = "return"
            /\ UNCHANGED <<ran, scopes, out, tidx, outcome>>
  /\ UNCHANGED <<tryNode, e, finallyRuns, catchEnv, notTry>>

\* line 917
ReturnNull ==
  /\ tpc = "return"
  /\ tpc' = "done"
  /\ outcome' = [kind |-> "return", value |-> JsNull]
  /\ UNCHANGED <<tryNode, e, tidx, finallyRuns, ran, catchEnv, scopes, out, notTry>>

NextTry ==
  \/ TryBlockStep \/ CatchEnter \/ CatchBlockStep
  \/ FinallyInHandlerEnter \/ FinallyInHandlerStep \/ Rethrow
  \/ FinallyAfterEnter \/ FinallyAfterStep \/ ReturnNull

SpecTry == InitTry /\ [][NextTry]_vars

\* which actions of a block ran
RanOf(name) == {ran[i][2] : i \in {j \in 1..Len(ran) : ran[j][1] = name}}

Throws(action) == action.type = "CheckAction" /\ ~action.expr.value.b

NoThrowIn(block) == \A i \in 1..Len(block) : ~Throws(block[i])

\* C2: when evalTryAction ends on one of the three exit paths (the try
\* block completed; its error was caught and the catch block completed;
\* its error was rethrown for want of a catch block), a finally block that
\* the try action has was run.
C2_FinallyOnEveryExit ==
  (/\ tpc = "done"
   /\ tryNode.finallyBlock # JsNull
   /\ \/ e.k = "none"
      \/ tryNode.catchBlock = JsNull
      \/ NoThrowIn(tryNode.catchBlock.actions))
  => finallyRuns >= 1

\* C3: an error thrown by the try block of a try action with a catch block
\* does not leave the try action: the catch actions run in a child scope of
\* env that binds the catch name to the error's message, and evalTryAction
\* returns normally unless the catch or finally block throws an error of
\* its own.
C3_CaughtErrorStops ==
  (tpc = "done" /\ e.k = "Error" /\ tryNode.catchBlock # JsNull) =>
    /\ catchEnv \in 2..Len(scopes)
    /\ scopes[catchEnv].parent = 1
    /\ scopes[catchEnv].bindings = [n \in {tryNode.catchBlock.name} |-> JsTemplate(e.message)]
    /\ tryNode.catchBlock.name \notin DOMAIN scopes[1].bindings
    /\ NoThrowIn(tryNode.catchBlock.actions) =>
         RanOf("catch") = 1..Len(tryNode.catchBlock.actions)
    /\ \A i \in RanOf("catch") :
         tryNode.catchBlock.actions[i] = SayIdentifier(tryNode.catchBlock.name)
           => \E j \in 1..Len(out) : out[j] = JsTemplate(e.message)
    /\ outcome.kind = "throw" => outcome.message # e.message
    /\ (NoThrowIn(tryNode.catchBlock.actions)
          /\ (tryNode.finallyBlock # JsNull => NoThrowIn(tryNode.finallyBlock.actions)))
         => outcome = [kind |-> "return", value |-> JsNull]

\* C3 witness: the try block threw, the catch block ran an action and the
\* try action returned.
C3_Witness ==
  /\ tpc = "done"
  /\ e.k = "Error"
  /\ tryNode.catchBlock # JsNull
  /\ \E i \in RanOf("catch") :
       tryNode.catchBlock.actions[i] = SayIdentifier(tryNode.catchBlock.name)
  /\ outcome.kind = "return"

\* C29: one execution of evalTryAction runs the finally block at most once,
\* whichever way the try action ends.
C29_FinallyAtMostOnce == finallyRuns <= 1

\* C21, for the try action: an error of the try block of a try action that
\* carries an on_error handler is recovered by the handler: the handler's
\* body (say 4) runs and the error does not leave the action.
C21_OnErrorRecovers ==
  (tpc = "done" /\ e.k = "Error" /\ tryNode.tryOnError # JsNull) =>
    /\ \E j \in 1..Len(out) : out[j] = JsNumber(4)
    /\ ~(outcome.kind = "throw" /\ outcome.message = e.message)

(***************************************************************************)
(* Programs.  parseProgram accepts packs at the top level; the programs    *)
(* here are one pack whose body holds loose, promise and test              *)
(* declarations, none of them inside a try action or carrying on_error.    *)
(***************************************************************************)
MaxItems == 2

Number(n) == [type |-> "Number", value |-> JsNumber(n)]

TextNode(s) == [type |-> "Text", value |-> Text(s)]

Literal(b) == [type |-> "Literal", value |-> JsBoolean(b)]

Identifier(name) == [type |-> "Identifier", value |-> Text(name)]

BinaryExpr(op, left, right) ==
  [type |-> "BinaryExpr", op |-> op, left |-> left, right |-> right]

StoreAction(key, value) == [type |-> "StoreAction", key |-> key, value |-> value]

\* parseMatchCase: pick name => actions, pick else => actions
PickName(name, actions) ==
  [type |-> "MatchCase", pattern |-> [type |-> "Name", name |-> name],
   actions |-> actions]

PickElse(actions) ==
  [type |-> "MatchCase", pattern |-> [type |-> "Else"], actions |-> actions]

MatchAction(expr, cases) ==
  [type |-> "MatchAction", expr |-> expr,
   body |-> [type |-> "MatchBody", cases |-> cases]]

\* an if without else carries an empty else branch here: null and [] make
\* both engines do the same
IfAction(condition, thenBranch, elseBranch) ==
  [type |-> "IfAction", condition |-> condition, thenBranch |-> thenBranch,
   elseBranch |-> elseBranch]

LooseDecl(expr) == [type |-> "LooseDecl", expr |-> expr]

PromiseDecl(name, check, enforce) ==
  [type |-> "PromiseDecl", name |-> name, tags |-> <<>>, needs |-> JsNull,
   binds |-> JsNull, check |-> check, enforce |-> enforce]

TestCase(name, actions) ==
  [type |-> "TestCase", name |-> name, actions |-> actions, expects |-> <<>>,
   onError |-> JsNull]

TestDecl(name, cases) ==
  [type |-> "TestDecl", name |-> name, tags |-> <<>>, cases |-> cases]

Pack(name, body) == [type |-> "Pack", name |-> name, tags |-> <<>>, body |-> body]

Program(body) == [type |-> "Program", body |-> body]

Exprs ==
  {Number(1), Identifier("x")} \cup
  {BinaryExpr(op, Number(1), Number(n)) : op \in {"/", "%"}, n \in {0, 2}} \cup
  {BinaryExpr("+", TextNode("a"), TextNode("b"))}

PickSays == MatchAction(Number(3), <<PickName("x", <<SayIdentifier("x")>>)>>)

PickIgnores == MatchAction(Number(3), <<PickName("x", <<Say(1)>>)>>)

TestActions ==
  {<<Say(1)>>, <<Check(FALSE, "boom"), Say(1)>>,
   <<PickSays>>, <<PickIgnores, PickIgnores>>,
   <<MatchAction(Number(3), <<PickElse(<<Say(2)>>)>>)>>,
   <<IfAction(Literal(TRUE), <<Say(1)>>, <<Say(2)>>)>>,
   <<IfAction(Literal(FALSE), <<Say(1)>>, <<>>)>>}

Items ==
  {LooseDecl(x) : x \in Exprs} \cup
  {PromiseDecl("p", c, n) :
     c \in {JsNull, Literal(TRUE), Literal(FALSE)},
     n \in {<<>>, <<Say(1)>>, <<StoreAction("x", Number(2))>>}} \cup
  {TestDecl("t", <<TestCase("c", a)>>) : a \in TestActions}

Programs ==
  {Program(<<Pack("main", b)>>) : b \in SeqsUpTo(Items, MaxItems) \ {<<>>}}

\* Interpreter.evalLooseDecl
evalLooseDecl(node, sc, s, o) == evalExprOrCall(node.expr, sc, s, o)

\* Interpreter.evalJobDecl: the job is bound to its name, and with
\* config.when a timer is set that will call job.execute([])
evalJobDecl(node, sc, s, o) ==
  LET job == [k |-> "object", type |-> "Job", config |-> configFrom(node.config, 1),
              actions |-> node.actions, env |-> s]
      defined(d) ==
        IF ~d.ok THEN Fail(AlreadyDefined(node.name), sc, o)
        ELSE IF "when" \in DOMAIN job.config
          THEN Done(JsNull, d.sc, o) @@ [timer |-> [name |-> node.name, job |-> job]]
        ELSE Done(JsNull, d.sc, o)
  IN defined(define(sc, s, node.name, job))

\* Interpreter.evalPromiseDecl
evalPromiseDecl(node, sc, s, o) ==
  LET promise == [k |-> "object", type |-> "Promise", needs |-> node.needs,
                  binds |-> node.binds, check |-> node.check,
                  enforce |-> node.enforce]
      defined(d, r) ==
        IF d.ok THEN Done(JsNull, d.sc, r.out)
        ELSE Fail(AlreadyDefined(node.name), r.sc, r.out)
      enforced(r) ==
        IF ~r.ok THEN r
        ELSE withSubs(defined(define(r.sc, s, node.name, promise), r), subsOf(r))
      checked(valid) ==
        IF ~valid.ok THEN Fail(valid.error, sc, o)
        ELSE IF ~truthy(valid.value)
          THEN Fail(<<Text("Promise check failed for "), Text(node.name)>>, sc, o)
        ELSE enforced(executeActions(node.enforce, sc, s, o))
  IN checked(IF node.check # JsNull THEN evalExpr(node.check, sc, s)
             ELSE [ok |-> TRUE, value |-> JsBoolean(TRUE)])

\* Interpreter.evalTestCase for a case without expectations and on_error:
\* an Error of its actions is caught and reported on console.error; passed
\* tells whether the case returned true, caught holds the Error it caught
evalTestCase(node, sc, s, o) ==
  LET testEnv == Len(sc) + 1
      caseEnd(r) ==
        IF r.ok
          THEN [passed |-> TRUE, caught |-> <<>>, sc |-> r.sc,
                out |-> Append(r.out, [log |-> "Test passed", name |-> node.name])]
          ELSE [passed |-> FALSE, caught |-> <<r.error>>, sc |-> r.sc,
                out |-> r.out]
  IN caseEnd(executeActions(node.actions, createChild(sc, s), testEnv, o))

\* Interpreter.evalTestDecl from case i on
RECURSIVE evalTestCases(_, _, _, _, _, _, _)
evalTestCases(node, i, passed, caught, sc, s, o) ==
  IF i > Len(node.cases)
    THEN [ok |-> TRUE, value |-> JsNull, sc |-> sc, caught |-> caught,
          out |-> Append(o, [log |-> "Tests", passed |-> passed,
                             total |-> Len(node.cases)])]
    ELSE LET next(r) ==
               evalTestCases(node, i + 1, IF r.passed THEN passed + 1 ELSE passed,
                             caught \o r.caught, r.sc, s, r.out)
         IN next(evalTestCase(node.cases[i], sc, s, o))

evalTestDecl(node, sc, s, o) == evalTestCases(node, 1, 0, <<>>, sc, s, o)

\* Interpreter.evalNode for the declarations of a pack body
evalNode(node, sc, s, o) ==
  CASE node.type = "LooseDecl" -> evalLooseDecl(node, sc, s, o)
    [] node.type = "PromiseDecl" -> evalPromiseDecl(node, sc, s, o)
    [] node.type = "TestDecl" -> evalTestDecl(node, sc, s, o)
    [] node.type = "JobDecl" -> evalJobDecl(node, sc, s, o)
    [] node.type = "VarDecl" -> evalVarDecl(node, sc, s, o)

\* the Errors thrown while a declaration was evaluated, caught or not
Raised(r) ==
  IF ~r.ok THEN <<r.error>>
  ELSE IF "caught" \in DOMAIN r THEN r.caught ELSE <<>>

(***************************************************************************)
(* Engine: the bytecode path.  compile yields the instruction array; an    *)
(* instruction is a record holding its opcode and the fields the compiler  *)
(* gives it.  ip counts from 0 as in the source: instruction ip is         *)
(* instructions[ip + 1].                                                   *)
(***************************************************************************)
\* Engine.compileBinaryExpr, opMap
opMap(op) ==
  CASE op = "+" -> "ADD"
    [] op = "/" -> "DIV"
    [] op = "%" -> "MOD"

\* Engine.compileExpr
RECURSIVE compileExpr(_), compileArgs(_, _), compileElements(_, _)
compileExpr(node) ==
  CASE node.type = "Number" -> <<[opcode |-> "PUSH", value |-> node.value]>>
    [] node.type = "Text" ->
         <<[opcode |-> "PUSH", value |-> JsString(node.value.t)]>>
    [] node.type = "Literal" -> <<[opcode |-> "PUSH", value |-> node.value]>>
    [] node.type = "Identifier" -> <<[opcode |-> "LOAD", value |-> node.value.t]>>
    [] node.type = "BinaryExpr" ->
         compileExpr(node.left) \o compileExpr(node.right)
           \o <<[opcode |-> opMap(node.op)]>>
    [] node.type = "Call" ->
         \* Engine.compileCall
         compileArgs(node.args, 1)
           \o <<[opcode |-> "CALL", value |-> node.name, argCount |-> Len(node.args)]>>
    [] node.type = "SmallFnExpr" ->
         \* Engine.compileSmallFnExpr
         <<[opcode |-> "PUSH",
            value |-> [k |-> "object", type |-> "Function", args |-> node.args,
                       expr |-> node.expr, grab |-> node.grab]]>>
    [] node.type = "ListExpr" ->
         \* Engine.compileListExpr
         <<[opcode |-> "PUSH", value |-> [k |-> "array", items |-> <<>>]]>>
           \o compileElements(node.elements, 1)

\* compileListExpr, the elements from i on: each is followed by LIST_APPEND
compileElements(elements, i) ==
  IF i > Len(elements) THEN <<>>
  ELSE compileExpr(elements[i]) \o <<[opcode |-> "LIST_APPEND"]>>
         \o compileElements(elements, i + 1)

\* node.args.forEach(arg => this.compileExpr(arg)), from argument i on
compileArgs(args, i) ==
  IF i > Len(args) THEN <<>> ELSE compileExpr(args[i]) \o compileArgs(args, i + 1)

\* the tail of compileVarDecl (node.names) and compileSetAction
\* (node.target): one STORE, or a Destructure marker and a STORE per name
compileTarget(target) ==
  IF target.type = "Name" THEN <<[opcode |-> "STORE", value |-> target.value]>>
  ELSE <<[opcode |-> "PUSH",
          value |-> [k |-> "object", type |-> "Destructure",
                     count |-> Len(target.names)]]>>
         \o [j \in 1..Len(target.names) |->
               [opcode |-> "STORE", value |-> target.names[j]]]

\* Engine.compileVarDecl: node.type is truthy and not an InferType node
compileVarDecl(node) ==
  compileExpr(node.value) \o <<[opcode |-> "TYPE_CHECK", type |-> TagAsTypeNode]>>
    \o compileTarget(node.names)

RECURSIVE compileAction(_, _), compileActions(_, _, _),
          compileMatchCases(_, _, _, _), compileMatchAction(_, _),
          compileIfAction(_, _), compileLoopAction(_, _), compileTryAction(_, _)

\* Engine.compileAction, n being this.instructions.length on entry, with
\* compileSayAction, compileCheckAction and compileStoreAction in place
compileAction(node, n) ==
  CASE node.type = "SayAction" -> compileExpr(node.expr) \o <<[opcode |-> "SAY"]>>
    [] node.type = "CheckAction" ->
         compileExpr(node.expr) \o <<[opcode |-> "CHECK", value |-> node.message]>>
    [] node.type = "StoreAction" ->
         compileExpr(node.value) \o <<[opcode |-> "STORE", value |-> node.key]>>
    [] node.type = "MatchAction" -> compileMatchAction(node, n)
    [] node.type = "IfAction" -> compileIfAction(node, n)
    [] node.type = "SetAction" ->
         \* Engine.compileSetAction
         compileExpr(node.value) \o compileTarget(node.target)
    [] node.type = "ReturnAction" ->
         \* Engine.compileReturnAction: node.type is truthy
         compileExpr(node.value)
           \o <<[opcode |-> "TYPE_CHECK", type |-> TagAsTypeNode],
                [opcode |-> "RETURN"]>>
    [] node.type = "SubscribeAction" ->
         \* Engine.compileSubscribeAction
         <<[opcode |-> "SUBSCRIBE", value |-> node.topic, actions |-> node.actions]>>
    [] node.type = "LoopAction" -> compileLoopAction(node, n)
    [] node.type = "TryAction" -> compileTryAction(node, n)

\* Engine.compileLoopAction: the bounds, a LoopCounter marker, the body and
\* a jump back to the marker
compileLoopAction(node, n) ==
  LET bounds == compileExpr(node.range.start) \o compileExpr(node.range.end)
      loopStart == n + Len(bounds)
  IN bounds \o <<[opcode |-> "PUSH", value |-> [k |-> "object", type |-> "LoopCounter"]]>>
       \o compileActions(node.body, 1, loopStart + 1)
       \o <<[opcode |-> "JUMP", target |-> loopStart]>>

\* Engine.compileTryAction: [TRY][try block][JUMP end][STORE name, catch
\* block][finally block]; catchTarget is the index after the JUMP,
\* finallyTarget the index after the catch block, end the index after the
\* finally block
compileTryAction(node, n) ==
  LET tryCode == compileActions(node.tryBlock, 1, n + 1)
      catchTarget == n + 1 + Len(tryCode) + 1
      catchCode ==
        IF node.catchBlock = JsNull THEN <<>>
        ELSE <<[opcode |-> "STORE", value |-> node.catchBlock.name]>>
               \o compileActions(node.catchBlock.actions, 1, catchTarget + 1)
      finallyTarget == catchTarget + Len(catchCode)
      finallyCode ==
        IF node.finallyBlock = JsNull THEN <<>>
        ELSE compileActions(node.finallyBlock.actions, 1, finallyTarget)
  IN <<[opcode |-> "TRY", catchTarget |-> catchTarget,
        finallyTarget |-> finallyTarget]>>
       \o tryCode
       \o <<[opcode |-> "JUMP", target |-> finallyTarget + Len(finallyCode)]>>
       \o catchCode \o finallyCode

\* actions.forEach(action => this.compileAction(action)) from action i on
compileActions(actions, i, n) ==
  IF i > Len(actions) THEN <<>>
  ELSE LET then(code) == code \o compileActions(actions, i + 1, n + Len(code))
       IN then(compileAction(actions[i], n))

\* Engine.compileMatchAction, the cases from case i on: a case that is not
\* an Else case is [PUSH Match][JUMP_IF_FALSE past the JUMP][actions][JUMP end];
\* the end jumps are patched to end, the length once every case is emitted
compileMatchCases(cases, i, n, end) ==
  IF i > Len(cases) THEN <<>>
  ELSE LET guarded(actions) ==
             <<[opcode |-> "PUSH",
                value |-> [k |-> "object", type |-> "Match",
                           pattern |-> cases[i].pattern]],
               [opcode |-> "JUMP_IF_FALSE", target |-> n + 2 + Len(actions) + 1]>>
               \o actions \o <<[opcode |-> "JUMP", target |-> end]>>
           then(code) == code \o compileMatchCases(cases, i + 1, n + Len(code), end)
       IN then(IF cases[i].pattern.type # "Else"
                 THEN guarded(compileActions(cases[i].actions, 1, n + 2))
                 ELSE compileActions(cases[i].actions, 1, n))

\* Engine.compileMatchAction
compileMatchAction(node, n) ==
  LET from(expr) ==
        expr \o compileMatchCases(node.body.cases, 1, n + Len(expr),
                  n + Len(expr)
                    + Len(compileMatchCases(node.body.cases, 1, n + Len(expr), 0)))
  IN from(compileExpr(node.expr))

\* compileIfAction with the end jump patched two instructions late
compileIfActionLate(node, n) ==
  LET emit(condition, thenCode, elseCode) ==
        condition
          \o <<[opcode |-> "JUMP_IF_FALSE",
                target |-> n + Len(condition) + 1 + Len(thenCode) + 1]>>
          \o thenCode
          \o <<[opcode |-> "JUMP",
                target |-> n + Len(condition) + 1 + Len(thenCode) + 1
                             + Len(elseCode) + 2]>>
          \o elseCode
      withThen(condition, thenCode) ==
        emit(condition, thenCode,
             compileActions(node.elseBranch, 1,
                            n + Len(condition) + 1 + Len(thenCode) + 1))
      withCondition(condition) ==
        withThen(condition,
                 compileActions(node.thenBranch, 1, n + Len(condition) + 1))
  IN withCondition(compileExpr(node.condition))

\* Engine.compileIfAction:
\* [condition][JUMP_IF_FALSE else][then][JUMP end][else]
compileIfAction(node, n) ==
  LET emit(condition, thenCode, elseCode) ==
        condition
          \o <<[opcode |-> "JUMP_IF_FALSE",
                target |-> n + Len(condition) + 1 + Len(thenCode) + 1]>>
          \o thenCode
          \o <<[opcode |-> "JUMP",
                target |-> n + Len(condition) + 1 + Len(thenCode) + 1
                             + Len(elseCode)]>>
          \o elseCode
      withThen(condition, thenCode) ==
        emit(condition, thenCode,
             compileActions(node.elseBranch, 1,
                            n + Len(condition) + 1 + Len(thenCode) + 1))
      withCondition(condition) ==
        withThen(condition,
                 compileActions(node.thenBranch, 1, n + Len(condition) + 1))
  IN withCondition(compileExpr(node.condition))

\* Engine.compilePromiseDecl, n being this.instructions.length on entry
compilePromiseDecl(node, n) ==
  LET guard(code) ==
        code \o <<[opcode |-> "JUMP_IF_FALSE", target |-> n + Len(code) + 2],
                  [opcode |-> "THROW",
                   value |-> "Promise check failed for " \o node.name]>>
      check == IF node.check # JsNull THEN guard(compileExpr(node.check)) ELSE <<>>
      after(code) == code \o compileActions(node.enforce, 1, n + Len(code))
  IN after(check)
       \o <<[opcode |-> "PUSH",
             value |-> [k |-> "object", type |-> "Promise", needs |-> node.needs,
                        binds |-> node.binds]],
            [opcode |-> "STORE", value |-> node.name]>>

\* Engine.compileTestDecl for cases without expectations: the test scope
\* exists only while compiling
RECURSIVE compileTestCases(_, _, _)
compileTestCases(cases, i, n) ==
  IF i > Len(cases) THEN <<>>
  ELSE LET then(code) == code \o compileTestCases(cases, i + 1, n + Len(code))
       IN then(compileActions(cases[i].actions, 1, n))

compileTestDecl(node, n) == compileTestCases(node.cases, 1, n)

\* the job object of Engine.compileJobDecl
compiledJob(node) ==
  [k |-> "object", type |-> "Job", config |-> configFrom(node.config, 1),
   actions |-> node.actions, onError |-> node.onError]

\* Engine.compileJobDecl, the instructions it pushes
compileJobDecl(node) ==
  <<[opcode |-> "PUSH", value |-> compiledJob(node)],
    [opcode |-> "STORE", value |-> node.name]>>

\* Engine.compileJobDecl, this.functions.set(node.name, job) for the
\* declarations of a pack body from item i on: the job a name maps to
RECURSIVE compiledFunctions(_, _)
compiledFunctions(items, i) ==
  IF i > Len(items) THEN [name \in {} |-> JsNull]
  ELSE IF items[i].type = "JobDecl"
    THEN compiledFunctions(items, i + 1) @@ (items[i].name :> compiledJob(items[i]))
  ELSE compiledFunctions(items, i + 1)

\* Engine.compileJobDecl, the timers set while the pack body is compiled:
\* this.asyncJobs.set(node.name, setTimeout(() => this.executeJob(job, []), delay))
RECURSIVE compiledTimers(_, _)
compiledTimers(items, i) ==
  IF i > Len(items) THEN <<>>
  ELSE IF items[i].type = "JobDecl" /\ "when" \in DOMAIN compiledJob(items[i]).config
    THEN <<[name |-> items[i].name, job |-> compiledJob(items[i]),
            state |-> "pending", runs |-> 0, env |-> 0]>>
           \o compiledTimers(items, i + 1)
  ELSE compiledTimers(items, i + 1)

\* Engine.compileNode for the declarations of a pack body
compileNode(node, n) ==
  CASE node.type = "LooseDecl" -> compileExpr(node.expr)
    [] node.type = "PromiseDecl" -> compilePromiseDecl(node, n)
    [] node.type = "TestDecl" -> compileTestDecl(node, n)
    [] node.type = "JobDecl" -> compileJobDecl(node)
    [] node.type = "VarDecl" -> compileVarDecl(node)

RECURSIVE compileBody(_, _, _)
compileBody(body, i, n) ==
  IF i > Len(body) THEN <<>>
  ELSE LET then(code) == code \o compileBody(body, i + 1, n + Len(code))
       IN then(compileNode(body[i], n))

\* Engine.compilePack, packEnv being the scope made for the pack at compile time
compilePack(node, n, packEnv) ==
  compileBody(node.body, 1, n)
    \o <<[opcode |-> "STORE", value |-> node.name, tags |-> node.tags,
          env |-> packEnv]>>

\* Engine.compile of a program of one pack: the engine's global scope is 1
\* and the pack's scope 2
compile(program) ==
  compilePack(program.body[1], 0, 2) \o <<[opcode |-> "HALT"]>>

\* this.stack.pop(): undefined when the stack is empty
top(stk) == IF stk = <<>> THEN JsUndefined ELSE stk[Len(stk)]

pop(stk) == IF stk = <<>> THEN <<>> ELSE SubSeq(stk, 1, Len(stk) - 1)

push(stk, value) == Append(stk, value)

\* the instruction went through: the engine's state after it
Ran(stk, env, o, i) ==
  [ok |-> TRUE, stack |-> stk, environment |-> env, out |-> o, ip |-> i]

\* the instruction threw: what it had changed until then
Threw(error, stk, env, o, i) ==
  [ok |-> FALSE, error |-> Merge(error), stack |-> stk, environment |-> env,
   out |-> o, ip |-> i]

\* case OPCODES.STORE, the engine's current environment being scope 1
executeStore(instruction, stk, env, o, i) ==
  LET value == top(stk)
      bound == IF "env" \in DOMAIN instruction
                 THEN [k |-> "object", type |-> "Namespace", env |-> instruction.env]
                 ELSE value
      stored(r) ==
        IF r.ok THEN Ran(pop(stk), r.sc, o, i)
        ELSE Threw(AlreadyDefined(instruction.value), pop(stk), env, o, i)
  IN stored(define(env, 1, instruction.value, bound))

\* Engine.executeActions and the tail of executeFunction: the instructions
\* compiled are pushed on this.instructions, execute is given the last of
\* them and resets ip and stack, and its loop throws at once because that
\* instruction is the last and not HALT
executeLast(code, env, o) ==
  Threw(<<Text("Program did not terminate with HALT")>>, <<>>, env, o, 0)
    @@ [instructions |-> <<code[Len(code)]>>]

\* Engine.executeFunction, the engine's current environment being scope 1;
\* the names a function grabs are not among its parameters
executeFunction(fn, args, stk, env, o, i, n) ==
  LET callEnv == Len(env) + 1
      missing == {j \in 1..Len(fn.grab) : ~get(env, 1, fn.grab[j]).ok}
      first == CHOOSE j \in missing : \A l \in missing : j <= l
      grabbed(d) ==
        IF ~d.ok THEN Threw(AlreadyDefined(d.name), stk, d.sc, o, i)
        ELSE IF missing # {}
          THEN Threw(UndefinedVariable(fn.grab[first]), stk, d.sc, o, i)
        ELSE executeLast(compileExpr(fn.expr), d.sc, o)
      job(d) ==
        IF ~d.ok THEN Threw(AlreadyDefined(d.name), stk, d.sc, o, i)
        ELSE IF fn.actions = <<>> THEN Ran(push(stk, JsUndefined), d.sc, o, i)
        ELSE \* executeActions has made jobEnv this.environment
             [active |-> callEnv] @@ executeLast(compileAction(fn.actions[1], n), d.sc, o)
  IN IF fn.k = "object" /\ fn.type = "Job"
       THEN job(defineArgs(createChild(env, 1), callEnv, ArgNames(fn.config), args, 1))
     ELSE IF fn.k = "object" /\ fn.type = "Function"
       THEN grabbed(defineArgs(createChild(env, 1), callEnv, fn.args, args, 1))
     ELSE Threw(<<Text("Cannot call non-function "),
                  IF fn.k = "object" THEN Text(fn.type) ELSE JsUndefined>>,
                stk, env, o, i)

\* the argCount values popped, the last popped being the first argument
RECURSIVE popArgs(_, _)
popArgs(stk, count) ==
  IF count = 0 THEN <<>> ELSE popArgs(pop(stk), count - 1) \o <<top(stk)>>

RECURSIVE popN(_, _)
popN(stk, count) == IF count = 0 THEN stk ELSE popN(pop(stk), count - 1)

\* case OPCODES.CALL: functions is this.functions
executeCall(instruction, functions, stk, env, o, i, n) ==
  LET called(fn) ==
        executeFunction(fn, popArgs(stk, instruction.argCount),
                        popN(stk, instruction.argCount), env, o, i, n)
      found(g) ==
        IF g.ok THEN called(g.value)
        ELSE Threw(UndefinedVariable(instruction.value), stk, env, o, i)
  IN IF instruction.value \in DOMAIN functions THEN called(functions[instruction.value])
     ELSE found(get(env, 1, instruction.value))

\* Engine.executeInstruction: i is this.ip, n this.instructions.length
executeInstruction(instruction, stk, env, o, i, n) ==
  LET op == instruction.opcode
      a == top(stk)
      b == top(pop(stk))
      rest == pop(pop(stk))
      loaded(g) ==
        IF g.ok THEN Ran(push(stk, g.value), env, o, i)
        ELSE Threw(UndefinedVariable(instruction.value), stk, env, o, i)
  IN CASE op = "PUSH" -> Ran(push(stk, instruction.value), env, o, i)
       [] op = "LOAD" -> loaded(get(env, 1, instruction.value))
       [] op = "STORE" -> executeStore(instruction, stk, env, o, i)
       [] op = "ADD" -> Ran(push(rest, jsAdd(a, b)), env, o, i)
       [] op = "DIV" -> Ran(push(rest, jsDiv(b, a)), env, o, i)
       [] op = "MOD" -> Ran(push(rest, jsMod(b, a)), env, o, i)
       [] op = "SAY" -> Ran(pop(stk), env, Append(o, a), i)
       [] op = "CHECK" ->
            IF ~truthy(a) THEN Threw(<<Text(instruction.value)>>, pop(stk), env, o, i)
            ELSE Ran(pop(stk), env, o, i)
       [] op = "JUMP" -> Ran(stk, env, o, instruction.target - 1)
       [] op = "JUMP_IF_FALSE" ->
            Ran(pop(stk), env, o, IF ~truthy(a) THEN instruction.target - 1 ELSE i)
       [] op = "THROW" ->
            Threw(<<Text(instruction.value), Text(": "), a>>, pop(stk), env, o, i)
       [] op = "TYPE_CHECK" ->
            \* this.environment.validateType(top of stack, instruction.type)
            IF validateType(env, 1, a, instruction.type).ok THEN Ran(stk, env, o, i)
            ELSE Threw(<<Text(validateType(env, 1, a, instruction.type).error),
                         Text(" "), Text(typeKey(instruction.type))>>, stk, env, o, i)
       [] op = "LIST_APPEND" ->
            \* the list is the value under the top of the stack
            Ran(push(rest, [b EXCEPT !.items = Append(@, a)]), env, o, i)
       [] op = "RETURN" ->
            \* push(pop()), then ip = callStack.pop(): nothing pushes on
            \* callStack, ip becomes undefined and NaN after ip++, which ends
            \* the loop of execute as an ip past the last instruction does
            Ran(push(pop(stk), a), env, o, n)
       [] op = "TRY" ->
            \* the class has no executeInstructions: the call inside the try
            \* statement throws a TypeError, its catch clause pushes the
            \* message and sets ip, and finallyTarget, never 0, sets it again
            Ran(push(stk, JsString("this.executeInstructions is not a function")),
                env, o, instruction.finallyTarget - 1)
       [] op = "SUBSCRIBE" ->
            [listener |-> [topic |-> instruction.value,
                           actions |-> instruction.actions]]
              @@ Ran(stk, env, o, i)
       [] op = "HALT" -> Ran(stk, env, o, n)

\* the model follows a run of the Engine while its stack is this deep
MaxStack == 8

(***************************************************************************)
(* Spec: one program run by Interpreter.interpret and by Engine.run.  The  *)
(* two engines are separate objects that share nothing, so the model runs  *)
(* the Interpreter to its end and then the Engine.                         *)
(***************************************************************************)
Init ==
  /\ cls = "interpreter.js"
  /\ last = [op |-> "new"]
  /\ scopes = <<[NewEnvironment(0) EXCEPT !.types = initializeBuiltins]>>
  /\ out = <<>>
  /\ IdleTry
  /\ IdleFront
  /\ ast \in Programs
  /\ ipc = 0
  /\ iResult = [kind |-> "none"]
  /\ raised = <<>>
  /\ executed = <<>>
  /\ asyncJobs = <<>>
  /\ instructions = <<>>
  /\ ip = 0
  /\ stack = <<>>
  /\ environment = <<NewEnvironment(0)>>
  /\ vmOut = <<>>
  /\ vmResult = [kind |-> "none"]
  /\ vmRaised = <<>>
  /\ vmAsyncJobs = <<>>
  /\ active = 1
  /\ eventListeners = <<>>
  /\ vmEventListeners = <<>>
  /\ envListeners = {}
  /\ events = <<>>

\* the pack of the program and its scope in the Interpreter
pack == ast.body[1]

\* Interpreter.evalPack, entry: const packEnv = new Environment(env)
EvalPackEnter ==
  /\ iResult.kind = "none"
  /\ ipc = 0
  /\ scopes' = createChild(scopes, 1)
  /\ ipc' = 1
  /\ last' = [op |-> "evalPack"]
  /\ UNCHANGED <<ast, iResult, raised, executed, asyncJobs, out, engineVars, hostVars,
                 notRun>>

\* Interpreter.evalPack, the loop: await this.evalNode(item, packEnv)
EvalNodeStep ==
  /\ iResult.kind = "none"
  /\ ipc \in 1..Len(pack.body)
  /\ LET at(errors) == [j \in 1..Len(errors) |-> [at |-> ipc, message |-> errors[j]]]
         step(r) ==
           /\ scopes' = r.sc
           /\ out' = r.out
           /\ executed' = Append(executed, ipc)
           /\ raised' = raised \o at(Raised(r))
           /\ asyncJobs' =
                IF "timer" \in DOMAIN r
                  THEN Append(asyncJobs,
                              r.timer @@ [state |-> "pending", runs |-> 0, env |-> 0])
                  ELSE asyncJobs
           /\ eventListeners' = subscribed(eventListeners, subsOf(r), 1)
           /\ last' = [op |-> "evalNode", node |-> pack.body[ipc], ok |-> r.ok]
           /\ IF r.ok
                THEN /\ ipc' = ipc + 1
                     /\ UNCHANGED iResult
                ELSE /\ iResult' = [kind |-> "throw", message |-> r.error]
                     /\ UNCHANGED ipc
     IN step(evalNode(pack.body[ipc], scopes, 2, out))
  /\ UNCHANGED <<ast, engineVars, active, vmEventListeners, envListeners, events,
                 notRun>>

\* Interpreter.evalPack, exit: env.define(node.name, {type: 'Pack', ...});
\* evalProgram then returns the pack's null
EvalPackDefine ==
  /\ iResult.kind = "none"
  /\ ipc = Len(pack.body) + 1
  /\ LET defined(r) ==
           /\ scopes' = r.sc
           /\ iResult' = IF r.ok THEN [kind |-> "return", value |-> JsNull]
                         ELSE [kind |-> "throw", message |-> AlreadyDefined(pack.name)]
     IN defined(define(scopes, 1, pack.name,
                       [k |-> "object", type |-> "Pack", tags |-> pack.tags,
                        env |-> 2]))
  /\ last' = [op |-> "define"]
  /\ UNCHANGED <<ast, ipc, raised, executed, asyncJobs, out, engineVars, hostVars,
                 notRun>>

\* Engine.compile, which also makes the pack's scope
Compile ==
  /\ iResult.kind # "none"
  /\ instructions = <<>>
  /\ instructions' = compile(ast)
  /\ environment' = createChild(environment, 1)
  /\ vmAsyncJobs' = compiledTimers(pack.body, 1)
  /\ last' = [op |-> "compile"]
  /\ UNCHANGED <<ip, stack, vmOut, vmResult, vmRaised, interpVars, hostVars, scopes,
                 out, notRun>>

\* Engine.execute, one turn of the loop
ExecuteStep ==
  /\ instructions # <<>>
  /\ vmResult.kind = "none"
  /\ ip < Len(instructions)
  /\ Len(stack) <= MaxStack
  /\ LET instruction == instructions[ip + 1]
         step(r) ==
           /\ instructions' = IF "instructions" \in DOMAIN r THEN r.instructions
                               ELSE instructions
           /\ stack' = r.stack
           /\ environment' = r.environment
           /\ active' = IF "active" \in DOMAIN r THEN r.active ELSE active
           /\ vmEventListeners' =
                IF "listener" \in DOMAIN r
                  THEN subscribed(vmEventListeners, <<r.listener>>, 1)
                  ELSE vmEventListeners
           /\ vmOut' = r.out
           /\ last' = [op |-> instruction.opcode, right |-> top(stack), ok |-> r.ok,
                       pushed |-> Len(r.stack) > Len(pop(pop(stack)))]
           /\ IF r.ok
                THEN /\ ip' = r.ip + 1
                     /\ UNCHANGED <<vmResult, vmRaised>>
                ELSE /\ vmResult' = [kind |-> "throw", message |-> r.error]
                     /\ vmRaised' = Append(vmRaised, [at |-> ip, message |-> r.error])
                     /\ ip' = r.ip
     IN step(IF ip = Len(instructions) - 1 /\ instruction.opcode # "HALT"
               THEN Threw(<<Text("Program did not terminate with HALT")>>,
                          stack, environment, vmOut, ip)
             ELSE IF instruction.opcode = "CALL"
               THEN executeCall(instruction, compiledFunctions(pack.body, 1), stack,
                                environment, vmOut, ip, Len(instructions))
               ELSE executeInstruction(instruction, stack, environment, vmOut,
                                       ip, Len(instructions)))
  /\ UNCHANGED <<vmAsyncJobs, interpVars, eventListeners, envListeners, events,
                 scopes, out, notRun>>

\* Engine.execute, the loop ends: ip is past the last instruction
ExecuteEnd ==
  /\ instructions # <<>>
  /\ vmResult.kind = "none"
  /\ ip >= Len(instructions)
  /\ vmResult' = [kind |-> "return", value |-> JsUndefined]
  /\ last' = [op |-> "execute"]
  /\ UNCHANGED <<instructions, ip, stack, environment, vmOut, vmRaised, vmAsyncJobs,
                 interpVars, hostVars, scopes, out, notRun>>

Next ==
  \/ EvalPackEnter \/ EvalNodeStep \/ EvalPackDefine
  \/ Compile \/ ExecuteStep \/ ExecuteEnd

Spec == Init /\ [][Next]_vars

\* what `say` printed: the console lines that are values (the test reports
\* of the Interpreter are not)
IsValue(x) == "k" \in DOMAIN x

SayOutputs(o) == SelectSeq(o, IsValue)

\* the bindings an engine holds when it ends, whatever scope holds them; a
\* declaration object (pack, promise) counts as an object, its fields aside
Plain(value) == IF value.k = "object" THEN [k |-> "object"] ELSE value

Stored(arena) ==
  UNION {{<<n, Plain(arena[s].bindings[n])>> : n \in DOMAIN arena[s].bindings} :
           s \in 1..Len(arena)}

BothEnded == iResult.kind # "none" /\ vmResult.kind # "none"

\* C1: for every program, Engine.compile followed by Engine.execute and
\* Interpreter.interpret print the same sequence of say outputs, hold the
\* same stored bindings and end with the same thrown error, or with no
\* error in both.
C1_EnginesAgree ==
  BothEnded =>
    /\ SayOutputs(out) = vmOut
    /\ Stored(scopes) = Stored(environment)
    /\ iResult.kind = vmResult.kind
    /\ iResult.kind = "throw" => iResult.message = vmResult.message

\* C4: in a program without try/catch and on_error, an Error that is raised
\* reaches the program boundary: interpret/execute ends by throwing that
\* Error, and nothing of the program runs after the point that raised it.
C4_UncaughtErrorTerminates ==
  /\ (iResult.kind # "none" /\ raised # <<>>) =>
       /\ iResult = [kind |-> "throw", message |-> raised[1].message]
       /\ executed[Len(executed)] = raised[1].at
  /\ (vmResult.kind # "none" /\ vmRaised # <<>>) =>
       /\ vmResult = [kind |-> "throw", message |-> vmRaised[1].message]
       /\ ip = vmRaised[1].at

\* a loose declaration that divides, or takes a modulo, by the literal 0
ZeroDivision(node) ==
  /\ node.type = "LooseDecl"
  /\ node.expr.type = "BinaryExpr"
  /\ node.expr.op \in {"/", "%"}
  /\ node.expr.right = Number(0)

\* C10: a division or modulo by zero raises an error in both engines: the
\* evaluator's / and % give no expression value, and the DIV/MOD opcode
\* throws and pushes no result on the stack.
C10_DivModByZeroFails ==
  /\ (last.op = "evalNode" /\ ZeroDivision(last.node)) => ~last.ok
  /\ (last.op \in {"DIV", "MOD"} /\ last.right = JsNumber(0)) =>
       (~last.ok /\ ~last.pushed)

\* the engine took its HALT instruction
Halted == last.op = "HALT"

(***************************************************************************)
(* SpecJob: Spec on programs of job declarations, calls and inline         *)
(* functions.  A timer set by a job declaration fires once its delay has   *)
(* passed; no evaluation of these programs waits for anything, so the      *)
(* timers of an engine fire after its run has ended.                       *)
(***************************************************************************)
\* parseJobDecl: config fields and actions, no on_error
JobDecl(name, config, actions) ==
  [type |-> "JobDecl", name |-> name, tags |-> <<>>, config |-> config,
   actions |-> actions, onError |-> JsNull]

\* parseCall
Call(name, args) == [type |-> "Call", name |-> name, args |-> args]

\* parseSmallFnExpr: fn(args) => expr, grabbing nothing
SmallFnExpr(args, expr) ==
  [type |-> "SmallFnExpr", args |-> args, expr |-> expr, grab |-> <<>>]

When(delay) == [type |-> "when", value |-> delay]

Args(names) ==
  [type |-> "args", value |-> [j \in 1..Len(names) |-> [name |-> names[j]]]]

\* job add { args a  say a + 1; }
AddJob ==
  JobDecl("add", <<Args(<<"a">>)>>,
          <<[type |-> "SayAction",
             expr |-> BinaryExpr("+", Identifier("a"), Number(1))]>>)

\* loose add(1);
CallsJob == LooseDecl(Call("add", <<Number(1)>>))

\* promise p { enforce { store("inc", fn(a) => a + 1); say inc(1); } }
CallsFunction ==
  PromiseDecl("p", JsNull,
              <<StoreAction("inc", SmallFnExpr(<<"a">>,
                                               BinaryExpr("+", Identifier("a"),
                                                          Number(1)))),
                [type |-> "SayAction", expr |-> Call("inc", <<Number(1)>>)]>>)

\* job later { when "1s"  say 1; } and a job whose body fails
TimedJobs ==
  {JobDecl("later", <<When("1s")>>, <<Say(1)>>),
   JobDecl("fails", <<When("1s")>>, <<Check(FALSE, "boom"), Say(1)>>)}

JobItems == {AddJob, CallsJob, CallsFunction, LooseDecl(Number(1))} \cup TimedJobs

JobPrograms ==
  {Program(<<Pack("main", body)>>) : body \in SeqsUpTo(JobItems, MaxItems)}

InitJob ==
  /\ cls = "interpreter.js"
  /\ last = [op |-> "new"]
  /\ scopes = <<[NewEnvironment(0) EXCEPT !.types = initializeBuiltins]>>
  /\ out = <<>>
  /\ IdleTry
  /\ IdleFront
  /\ ast \in JobPrograms
  /\ ipc = 0
  /\ iResult = [kind |-> "none"]
  /\ raised = <<>>
  /\ executed = <<>>
  /\ asyncJobs = <<>>
  /\ instructions = <<>>
  /\ ip = 0
  /\ stack = <<>>
  /\ environment = <<NewEnvironment(0)>>
  /\ vmOut = <<>>
  /\ vmResult = [kind |-> "none"]
  /\ vmRaised = <<>>
  /\ vmAsyncJobs = <<>>
  /\ active = 1
  /\ eventListeners = <<>>
  /\ vmEventListeners = <<>>
  /\ envListeners = {}
  /\ events = <<>>

\* a timer of Interpreter.evalJobDecl fires: () => job.execute([]); an Error
\* of the body rejects a promise nobody holds
JobTimer ==
  /\ iResult.kind # "none"
  /\ \E t \in 1..Len(asyncJobs) :
       /\ asyncJobs[t].state = "pending"
       /\ LET fired(r) ==
                /\ scopes' = r.sc
                /\ out' = r.out
                /\ asyncJobs' = [asyncJobs EXCEPT ![t].state = "fired",
                                                  ![t].runs = @ + 1,
                                                  ![t].env = Len(scopes) + 1]
                /\ last' = [op |-> "timer", ok |-> r.ok]
          IN fired(execute(asyncJobs[t].job, <<>>, scopes, out))
  /\ UNCHANGED <<ast, ipc, iResult, raised, executed, engineVars, hostVars, notRun>>

\* a timer of Engine.compileJobDecl fires: () => this.executeJob(job, []);
\* the class has no executeJob, the callback throws a TypeError
EngineJobTimer ==
  /\ vmResult.kind # "none"
  /\ \E t \in 1..Len(vmAsyncJobs) :
       /\ vmAsyncJobs[t].state = "pending"
       /\ vmAsyncJobs' = [vmAsyncJobs EXCEPT ![t].state = "fired"]
  /\ last' = [op |-> "timer", ok |-> FALSE]
  /\ UNCHANGED <<instructions, ip, stack, environment, vmOut, vmResult, vmRaised,
                 interpVars, hostVars, scopes, out, notRun>>

NextJob ==
  \/ EvalPackEnter \/ EvalNodeStep \/ EvalPackDefine
  \/ Compile \/ ExecuteStep \/ ExecuteEnd
  \/ JobTimer \/ EngineJobTimer

SpecJob == InitJob /\ [][NextJob]_vars

\* the program declares the job add and then calls it, or calls the inline
\* function it stored
CallProgram ==
  \/ pack.body = <<AddJob, CallsJob>>
  \/ pack.body = <<CallsFunction>>

\* C19: a call whose callee name is bound to a job or to an inline function
\* evaluates the callee's body with the parameters bound to the arguments
\* and yields the body's result: add(1) and inc(1) both come to 2, which is
\* printed, in the evaluator and in the VM, and neither run ends in an Error.
C19_CallRunsBody ==
  (BothEnded /\ CallProgram) =>
    /\ SayOutputs(out) = <<JsNumber(2)>> /\ iResult.kind = "return"
    /\ vmOut = <<JsNumber(2)>> /\ vmResult.kind = "return"

\* C20: a timer set by a job declaration with a when delay, once fired, has
\* run the job body exactly once, in a fresh scope whose parent is the
\* scope of the declaration; this holds for the timers of the evaluator and
\* of the VM.
C20_TimerRunsBodyOnce ==
  /\ \A t \in 1..Len(asyncJobs) :
       asyncJobs[t].state = "fired" =>
         /\ asyncJobs[t].runs = 1
         /\ scopes[asyncJobs[t].env].parent = asyncJobs[t].job.env
  /\ \A t \in 1..Len(vmAsyncJobs) :
       vmAsyncJobs[t].state = "fired" => vmAsyncJobs[t].runs = 1

(***************************************************************************)
(* SpecAct: Spec on programs of var declarations and of set, loop, try,    *)
(* return and subscribe actions.  When both runs have ended the host fires *)
(* events: Environment.triggerEvent on the Interpreter's global scope, and *)
(* a socket message that looks the name up in Engine.eventListeners.       *)
(***************************************************************************)
MaxEvents == 2

\* Parser.parseNameOrSplit
Name(value) == [type |-> "Name", value |-> value]

Split(names) == [type |-> "Split", names |-> names]

\* the node of a var declaration that evalNode and compileNode dispatch on
VarDecl(names, value) == [type |-> "VarDecl", names |-> names, value |-> value]

ListExpr(elements) == [type |-> "ListExpr", elements |-> elements]

SetAction(target, value) == [type |-> "SetAction", target |-> target, value |-> value]

\* the node of a return action that evalAction and compileAction dispatch on
ReturnAction(value) == [type |-> "ReturnAction", value |-> value]

LoopAction(target, start, end, actions) ==
  [type |-> "LoopAction", target |-> target, range |-> [start |-> start, end |-> end],
   body |-> actions, onError |-> JsNull]

SubscribeAction(topic, actions) ==
  [type |-> "SubscribeAction", topic |-> topic, actions |-> actions, onError |-> JsNull]

TryCatch(tryBlock, name, actions) ==
  [type |-> "TryAction", tryBlock |-> tryBlock, tryOnError |-> JsNull,
   catchBlock |-> [name |-> name, errorName |-> "low_trust", actions |-> actions],
   finallyBlock |-> JsNull]

Enforce(actions) == PromiseDecl("p", JsNull, actions)

\* var x = 1;  var x = "a";
VarDecls == {VarDecl(Name("x"), Number(1)), VarDecl(Name("x"), TextNode("a"))}

\* var (a, b) = [1, 2];  var (a, b) = [1];  var (a, b) = 1;
SplitOf(value) == VarDecl(Split(<<"a", "b">>), value)

SplitDecls ==
  {SplitOf(ListExpr(<<Number(1), Number(2)>>)), SplitOf(ListExpr(<<Number(1)>>)),
   SplitOf(Number(1))}

\* store x = 1; set x = 2; say x;
SetsBound ==
  Enforce(<<StoreAction("x", Number(1)), SetAction(Name("x"), Number(2)),
            SayIdentifier("x")>>)

\* store x = 1; loop i in 1 .. 1 { set x = 2; } say x;
SetsEnclosing ==
  Enforce(<<StoreAction("x", Number(1)),
            LoopAction(Name("i"), Number(1), Number(1),
                       <<SetAction(Name("x"), Number(2))>>),
            SayIdentifier("x")>>)

\* set y = 2;
SetsUnbound == Enforce(<<SetAction(Name("y"), Number(2))>>)

\* loop i in a .. b { say i; }
LoopOver(a, b) ==
  Enforce(<<LoopAction(Name("i"), Number(a), Number(b), <<SayIdentifier("i")>>)>>)

Ranges == {<<1, 2>>, <<1, 1>>, <<2, 1>>}

\* loop i in 1 .. 2 { say 0; }
LoopSaysZero ==
  Enforce(<<LoopAction(Name("i"), Number(1), Number(2), <<Say(0)>>)>>)

\* job r { return 1; say 2; }   and   say r();
ReturnsOne == JobDecl("r", <<>>, <<ReturnAction(Number(1)), Say(2)>>)

SaysCall == Enforce(<<[type |-> "SayAction", expr |-> Call("r", <<>>)]>>)

\* try { say 1; } catch (e: error low_trust) { say 2; }
TryPasses == Enforce(<<TryCatch(<<Say(1)>>, "e", <<Say(2)>>)>>)

\* try { check false, "boom"; say 1; } catch (e: error low_trust) { say e; }
TryFails ==
  Enforce(<<TryCatch(<<Check(FALSE, "boom"), Say(1)>>, "e", <<SayIdentifier("e")>>)>>)

\* subscribe "t" on_event { say eventData; }
Subscribes == Enforce(<<SubscribeAction("t", <<SayIdentifier("eventData")>>)>>)

\* if true { check false, "boom"; on_error (err: error x) { say err; } }
IfRecovers ==
  Enforce(<<[type |-> "IfAction", condition |-> Literal(TRUE),
             thenBranch |-> <<Check(FALSE, "boom")>>, elseBranch |-> <<>>,
             onError |-> OnError("err", <<SayIdentifier("err")>>)]>>)

ActItems ==
  VarDecls \cup SplitDecls
    \cup {SetsBound, SetsEnclosing, SetsUnbound, LoopSaysZero, ReturnsOne, SaysCall,
          TryPasses, TryFails, Subscribes, IfRecovers}
    \cup {LoopOver(r[1], r[2]) : r \in Ranges}

ActPrograms ==
  {Program(<<Pack("main", b)>>) : b \in SeqsUpTo(ActItems, MaxItems) \ {<<>>}}

InitAct ==
  /\ cls = "interpreter.js"
  /\ last = [op |-> "new"]
  /\ scopes = <<[NewEnvironment(0) EXCEPT !.types = initializeBuiltins]>>
  /\ out = <<>>
  /\ IdleTry
  /\ IdleFront
  /\ ast \in ActPrograms
  /\ ipc = 0
  /\ iResult = [kind |-> "none"]
  /\ raised = <<>>
  /\ executed = <<>>
  /\ asyncJobs = <<>>
  /\ instructions = <<>>
  /\ ip = 0
  /\ stack = <<>>
  /\ environment = <<NewEnvironment(0)>>
  /\ vmOut = <<>>
  /\ vmResult = [kind |-> "none"]
  /\ vmRaised = <<>>
  /\ vmAsyncJobs = <<>>
  /\ active = 1
  /\ eventListeners = <<>>
  /\ vmEventListeners = <<>>
  /\ envListeners = {}
  /\ events = <<>>

Topics == {"t", "u"}

Payloads == {JsNumber(7)}

\* the host calls globalEnv.registerEventListener(name, data => console.log(data))
RegisterEventListener ==
  /\ BothEnded
  /\ events = <<>>
  /\ \E name \in Topics :
       /\ name \notin envListeners
       /\ envListeners' = envListeners \cup {name}
       /\ last' = [op |-> "registerEventListener", name |-> name]
  /\ UNCHANGED <<active, eventListeners, vmEventListeners, events, runVars, scopes,
                 out, notRun>>

\* the host calls globalEnv.triggerEvent(name, data): the listener that the
\* Environment holds for the name is called with the data
TriggerEvent ==
  /\ BothEnded
  /\ Len(events) < MaxEvents
  /\ \E name \in Topics, data \in Payloads :
       /\ out' = IF name \in envListeners THEN Append(out, data) ELSE out
       /\ events' = Append(events,
                           [by |-> "triggerEvent", name |-> name, data |-> data,
                            registered |-> name \in envListeners,
                            subscribed |-> name \in DOMAIN eventListeners,
                            invoked |-> IF name \in envListeners THEN 1 ELSE 0,
                            scope |-> 0])
       /\ last' = [op |-> "triggerEvent", name |-> name]
  /\ UNCHANGED <<active, eventListeners, vmEventListeners, envListeners, runVars,
                 scopes, notRun>>

\* a message arrives on a socket named name: the Engine calls
\* this.eventListeners.get(name)?.(data).  The handler of a SUBSCRIBE makes
\* subEnv, defines eventData and calls executeActions, which makes subEnv
\* this.environment and, for a handler with actions, ends in the Error of
\* execute, a rejection nobody handles
SocketMessage ==
  /\ BothEnded
  /\ Len(events) < MaxEvents
  /\ \E name \in Topics, data \in Payloads :
       LET subEnv == Len(environment) + 1
           found == name \in DOMAIN vmEventListeners
           handler == vmEventListeners[name]
           defined == define(createChild(environment, active), subEnv, "eventData", data)
           ended(r) ==
             /\ instructions' = r.instructions
             /\ ip' = r.ip
             /\ stack' = r.stack
             /\ vmRaised' = Append(vmRaised, [at |-> r.ip, message |-> r.error])
       IN /\ IF found
               THEN /\ environment' = defined.sc
                    /\ IF handler.actions = <<>>
                         THEN UNCHANGED <<instructions, ip, stack, vmRaised, active>>
                         ELSE /\ active' = subEnv
                              /\ ended(executeLast(
                                          compileAction(handler.actions[1],
                                                        Len(instructions)),
                                          defined.sc, vmOut))
               ELSE UNCHANGED <<instructions, ip, stack, vmRaised, active, environment>>
          /\ events' = Append(events,
                              [by |-> "message", name |-> name, data |-> data,
                               registered |-> FALSE, subscribed |-> found,
                               invoked |-> IF found THEN 1 ELSE 0,
                               scope |-> IF found THEN subEnv ELSE 0])
          /\ last' = [op |-> "message", name |-> name]
  /\ UNCHANGED <<vmOut, vmResult, vmAsyncJobs, eventListeners, vmEventListeners,
                 envListeners, interpVars, scopes, out, notRun>>

NextAct ==
  \/ EvalPackEnter \/ EvalNodeStep \/ EvalPackDefine
  \/ Compile \/ ExecuteStep \/ ExecuteEnd
  \/ RegisterEventListener \/ TriggerEvent \/ SocketMessage

SpecAct == InitAct /\ [][NextAct]_vars

\* the scopes of an arena that bind the name
Binders(arena, name) == {s \in 1..Len(arena) : name \in DOMAIN arena[s].bindings}

\* the name is bound to the value, in one scope of the arena
BoundTo(arena, name, value) ==
  /\ Cardinality(Binders(arena, name)) = 1
  /\ \A s \in Binders(arena, name) : arena[s].bindings[name] = value

\* both runs of the program have ended and no event has been fired since
RunsEnded == BothEnded /\ events = <<>>

NoThrow == iResult.kind = "return" /\ vmResult.kind = "return"

BothThrew == iResult.kind = "throw" /\ vmResult.kind = "throw"

\* C22: a var declaration whose value conforms to the declared type binds
\* the name to the value, in the evaluator and in the VM (var x: num = 1
\* leaves x bound to 1 and raises nothing); a var declaration that raised an
\* error of the type check left the name unbound.
C22_TypedVarDecl ==
  RunsEnded =>
    /\ pack.body = <<VarDecl(Name("x"), Number(1))>> =>
         /\ NoThrow
         /\ BoundTo(scopes, "x", JsNumber(1))
         /\ BoundTo(environment, "x", JsNumber(1))
    /\ (pack.body \in {<<d>> : d \in VarDecls} /\ iResult.kind = "throw") =>
         Binders(scopes, "x") = {}
    /\ (pack.body \in {<<d>> : d \in VarDecls} /\ vmResult.kind = "throw") =>
         Binders(environment, "x") = {}

\* C28: var (a, b) = expr binds a and b to the first and second element of
\* the sequence expr evaluates to, in the evaluator and in the VM, and
\* fails in both when the value is no sequence or holds fewer than two
\* elements.
C28_Destructuring ==
  RunsEnded =>
    /\ pack.body = <<SplitOf(ListExpr(<<Number(1), Number(2)>>))>> =>
         /\ NoThrow
         /\ BoundTo(scopes, "a", JsNumber(1)) /\ BoundTo(scopes, "b", JsNumber(2))
         /\ BoundTo(environment, "a", JsNumber(1))
         /\ BoundTo(environment, "b", JsNumber(2))
    /\ pack.body \in {<<SplitOf(ListExpr(<<Number(1)>>))>>, <<SplitOf(Number(1))>>} =>
         BothThrew

\* C26: set x = 2 on a name bound in the current scope or in an enclosing
\* one updates that binding and creates none (the program then prints 2 and
\* x is bound once, to 2), and set on a name bound nowhere fails and binds
\* nothing; the evaluator and the VM agree.
C26_SetUpdatesNearest ==
  RunsEnded =>
    /\ pack.body \in {<<SetsBound>>, <<SetsEnclosing>>} =>
         /\ NoThrow
         /\ out = <<JsNumber(2)>> /\ vmOut = <<JsNumber(2)>>
         /\ BoundTo(scopes, "x", JsNumber(2))
         /\ BoundTo(environment, "x", JsNumber(2))
    /\ pack.body = <<SetsUnbound>> =>
         /\ BothThrew
         /\ Binders(scopes, "y") = {} /\ Binders(environment, "y") = {}

\* what loop i in a .. b { say i; } is to print: a, a + 1, ..., b
Ascending(a, b) == [j \in 1..(b - a + 1) |-> JsNumber(a + j - 1)]

\* C25: loop i in a .. b { say i; } prints a to b in ascending order, one
\* turn each in a fresh scope, and ends, with no turn when a > b, in the
\* evaluator and in the VM; a loop over 1 .. 2 never makes more than two
\* turns.
C25_LoopOverRange ==
  /\ \A r \in Ranges :
       (RunsEnded /\ pack.body = <<LoopOver(r[1], r[2])>>) =>
         /\ NoThrow
         /\ out = Ascending(r[1], r[2])
         /\ vmOut = Ascending(r[1], r[2])
         /\ Len(scopes) = 2 + Len(Ascending(r[1], r[2]))
  /\ (events = <<>> /\ pack.body = <<LoopSaysZero>>) =>
       Len(out) <= 2 /\ Len(vmOut) <= 2

\* C27: return 1 leaves the job: for job r { return 1; say 2; } the call r()
\* yields 1 and say 2 is not run, so say r() prints 1 and nothing else, in
\* the evaluator and in the VM.
C27_ReturnExits ==
  (RunsEnded /\ pack.body = <<ReturnsOne, SaysCall>>) =>
    /\ NoThrow
    /\ out = <<JsNumber(1)>>
    /\ vmOut = <<JsNumber(1)>>

\* C24: in the VM a try region without an error runs its protected
\* instructions and skips the catch block (try { say 1 } catch { say 2 }
\* prints 1), and with an error runs the catch block with the error stored
\* under the catch name (try { check false, "boom" } catch (e) { say e }
\* prints boom).
C24_TryRegion ==
  RunsEnded =>
    /\ pack.body = <<TryPasses>> => vmOut = <<JsNumber(1)>>
    /\ pack.body = <<TryFails>> => vmOut = <<JsString("boom")>>

\* C23: an event fired on a name for which a handler was registered, by a
\* subscribe action or on the Environment, invokes that handler once, the
\* handler of a subscribe action in a fresh child scope that binds eventData
\* to the payload; an event fired on a name without a handler invokes
\* nothing.
C23_FiringInvokesHandler ==
  \A j \in 1..Len(events) :
    LET event == events[j]
    IN /\ (event.subscribed \/ event.registered) => event.invoked = 1
       /\ (event.subscribed /\ event.invoked = 1 /\ ~event.registered) =>
            /\ event.scope \in 1..Len(environment)
            /\ environment[event.scope].bindings = ("eventData" :> event.data)
       /\ (~event.subscribed /\ ~event.registered) => event.invoked = 0

\* C30: when a call of the VM has ended, whether executeFunction returned
\* or raised an error, Engine.environment is the environment that was
\* active before the call, the global scope.
C30_EnvironmentRestored == last.op = "CALL" => active = 1

\* C11: for every compiled program that runs to HALT, the operand stack
\* holds zero or one value when HALT is taken.
C11_StackAtHalt == Halted => Len(stack) <= 1

\* the instructions of the compiled program that carry a jump target
Jumps == {k \in 1..Len(instructions) : "target" \in DOMAIN instructions[k]}

\* every target is the index of an instruction of the program
TargetsInRange ==
  \A k \in Jumps : instructions[k].target \in 1..Len(instructions) - 1

MatchPrintsProgram ==
  /\ pack.body[1].type = "TestDecl"
  /\ pack.body[1].cases[1].actions = <<PickSays>>

\* C14: match 3 { pick x => say x; } binds x to 3 and prints 3, in the
\* evaluator and in the VM alike.
C14_MatchBindsAndPrints ==
  (BothEnded /\ MatchPrintsProgram) =>
    /\ SayOutputs(out) # <<>> /\ SayOutputs(out)[1] = JsNumber(3)
    /\ vmOut # <<>> /\ vmOut[1] = JsNumber(3)

(***************************************************************************)
(* SpecTok: Tokenizer.tokenize.  A source text is a string, a character a  *)
(* string of length one, and Tokenizer.pos counts from 0 as in the code.   *)
(* A token is its type and value; the model leaves its line and column     *)
(* out.                                                                    *)
(***************************************************************************)
MaxPieces == 3

Letters ==
  {"a", "b", "c", "d", "e", "f", "g", "h", "i", "j", "k", "l", "m", "n",
   "o", "p", "q", "r", "s", "t", "u", "v", "w", "x", "y", "z", "A", "B",
   "C", "D", "E", "F", "G", "H", "I", "J", "K", "L", "M", "N", "O", "P",
   "Q", "R", "S", "T", "U", "V", "W", "X", "Y", "Z"}

Digits == {"0", "1", "2", "3", "4", "5", "6", "7", "8", "9"}

\* /\s/ on the characters a source text is written in
Whitespace == {" ", "\n", "\t", "\r"}

\* /[a-zA-Z0-9_]/
IdentifierChars == Letters \cup Digits \cup {"_"}

\* /[0-9.]/
NumberChars == Digits \cup {"."}

\* /[0-9a-fA-F]/
HexChars ==
  Digits \cup {"a", "b", "c", "d", "e", "f", "A", "B", "C", "D", "E", "F"}

\* /[A-Za-z0-9+/=]/
Base64Chars == Letters \cup Digits \cup {"+", "/", "="}

\* '{}[](),:;'
Symbols == {"{", "}", "[", "]", "(", ")", ",", ":", ";"}

\* Tokenizer.keywords
keywords ==
  {"namespace", "pack", "var", "fn", "if", "else", "set", "return", "true",
   "false", "null", "public", "private", "internal", "test", "async",
   "ritual", "mold", "while", "loop", "match", "try", "catch", "finally",
   "throw", "wait", "share", "send", "allow", "bridge", "box", "map",
   "queue", "view", "entity", "job", "money", "promise", "rule", "error",
   "reputation", "consensus", "think", "loose", "target", "bring", "type",
   "format", "guard", "say", "check", "store", "forget", "http", "socket",
   "subscribe", "audit", "hash", "verify", "zk_proof", "keygen", "multisig",
   "num", "word", "bool", "time", "address", "mood", "any", "list", "dict",
   "option", "group", "union", "future", "on_error", "fixed", "short",
   "tracked", "sacred", "forever", "when", "args", "do", "data", "gas",
   "life", "expect", "field", "needed", "schema", "user", "score",
   "threshold", "voters", "to", "can", "get", "connect", "on_message",
   "on_event", "needs", "binds", "enforce", "changes", "active", "recall",
   "returns", "pattern", "min", "max", "pick", "is"}

\* Tokenizer.operators
operators ==
  {"&&", "||", "==", "!=", ">", "<", ">=", "<=", "+", "-", "*", "/", "%",
   "!", "=", "=>", "..", "|"}

\* this.input[p]: the empty string stands for undefined, past the end
charAt(src, p) ==
  IF p >= 0 /\ p < Len(src) THEN SubSeq(src, p + 1, p + 1) ELSE ""

\* this.input.slice(from, to)
slice(src, from, to) ==
  LET end == IF to < Len(src) THEN to ELSE Len(src)
  IN IF from >= end THEN "" ELSE SubSeq(src, from + 1, end)

\* while (this.pos < this.input.length && class.test(this.input[this.pos])):
\* the position the loop ends at
RECURSIVE span(_, _, _)
span(src, p, class) ==
  IF charAt(src, p) \in class THEN span(src, p + 1, class) ELSE p

\* while (this.pos < this.input.length && this.input[this.pos] !== stop)
RECURSIVE find(_, _, _)
find(src, p, stop) ==
  IF p < Len(src) /\ charAt(src, p) # stop THEN find(src, p + 1, stop) ELSE p

\* the loop of readBlockComment: up to the closing star-slash, or to the
\* last character
RECURSIVE findClose(_, _)
findClose(src, p) ==
  IF p < Len(src) - 1 /\ ~(charAt(src, p) = "*" /\ charAt(src, p + 1) = "/")
    THEN findClose(src, p + 1)
    ELSE p

Token(type, value) == [type |-> type, value |-> value]

\* a read method returned its token and left this.pos at p
Scanned(token, p) == [ok |-> TRUE, token |-> token, pos |-> p]

\* a read method, or tokenize itself, threw
ScanError(message) == [ok |-> FALSE, error |-> message]

readLineComment(src, p) ==
  LET end == find(src, p + 2, "\n")
  IN Scanned(Token("line-comment", slice(src, p, end)),
             IF end < Len(src) THEN end + 1 ELSE end)

\* readBlockComment, an unclosed comment giving an eof token instead of
\* an Error
readBlockCommentLenient(src, p) ==
  LET end == findClose(src, p + 2)
  IN IF end < Len(src) - 1
       THEN Scanned(Token("block-comment", slice(src, p, end + 2)), end + 2)
       ELSE Scanned(Token("eof", ""), Len(src))

readBlockComment(src, p) ==
  LET end == findClose(src, p + 2)
  IN IF end < Len(src) - 1
       THEN Scanned(Token("block-comment", slice(src, p, end + 2)), end + 2)
       ELSE ScanError("Unclosed block comment")

readIdentifierOrKeyword(src, p) ==
  LET end == span(src, p, IdentifierChars)
      value == slice(src, p, end)
  IN Scanned(Token(IF value \in keywords THEN "keyword" ELSE "identifier", value),
             end)

readNumberOrHex(src, p) ==
  LET hexEnd == span(src, p + 2, HexChars)
      end == span(src, p, NumberChars)
  IN IF charAt(src, p) = "0" /\ charAt(src, p + 1) = "x"
       THEN Scanned(Token("hex", slice(src, p, hexEnd)), hexEnd)
       ELSE Scanned(Token(IF \E q \in p..end - 1 : charAt(src, q) = "."
                            THEN "decimal" ELSE "number",
                          slice(src, p, end)),
                    end)

readText(src, p) ==
  LET end == find(src, p + 1, "\"")
  IN IF end < Len(src)
       THEN Scanned(Token("text", slice(src, p + 1, end)), end + 1)
       ELSE ScanError("Unclosed string")

readBase64(src, p) ==
  LET end == span(src, p, Base64Chars)
  IN Scanned(Token("base64", slice(src, p, end)), end)

\* /^[A-Za-z0-9+/=]+$/.test(this.input.slice(this.pos, this.pos + 4))
isBase64Start(src, p) ==
  /\ slice(src, p, p + 4) # ""
  /\ \A q \in p..p + 3 : q < Len(src) => charAt(src, q) \in Base64Chars

readOperator(src, p) ==
  IF p + 1 < Len(src) /\ (charAt(src, p) \o charAt(src, p + 1)) \in operators
    THEN Scanned(Token("operator", slice(src, p, p + 2)), p + 2)
    ELSE Scanned(Token("operator", charAt(src, p)), p + 1)

isOperatorStart(src, p) ==
  \/ charAt(src, p) \in operators
  \/ (charAt(src, p) \o charAt(src, p + 1)) \in operators

readSymbol(src, p) == Scanned(Token("symbol", charAt(src, p)), p + 1)

\* the if chain of the loop of tokenize: the first test that passes at p
branch(src, p) ==
  LET char == charAt(src, p)
      next == charAt(src, p + 1)
  IN IF char \in Whitespace THEN "whitespace"
     ELSE IF char = "/" /\ next = "/" THEN "readLineComment"
     ELSE IF char = "/" /\ next = "*" THEN "readBlockComment"
     ELSE IF char \in Letters THEN "readIdentifierOrKeyword"
     ELSE IF char \in Digits \/ (char = "0" /\ next = "x") THEN "readNumberOrHex"
     ELSE IF char = "\"" THEN "readText"
     ELSE IF char \in Base64Chars /\ isBase64Start(src, p) THEN "readBase64"
     ELSE IF isOperatorStart(src, p) THEN "readOperator"
     ELSE IF char \in Symbols THEN "readSymbol"
     ELSE "throw"

\* one turn of the loop of tokenize that reads a token
scan(src, p) ==
  LET b == branch(src, p)
  IN CASE b = "readLineComment" -> readLineComment(src, p)
       [] b = "readBlockComment" -> readBlockComment(src, p)
       [] b = "readIdentifierOrKeyword" -> readIdentifierOrKeyword(src, p)
       [] b = "readNumberOrHex" -> readNumberOrHex(src, p)
       [] b = "readText" -> readText(src, p)
       [] b = "readBase64" -> readBase64(src, p)
       [] b = "readOperator" -> readOperator(src, p)
       [] b = "readSymbol" -> readSymbol(src, p)
       [] b = "throw" -> ScanError("Unexpected character '" \o charAt(src, p) \o "'")

\* the lexemes the source texts of SpecTok are written from
TwoCharOperators == {"&&", "==", "=>", "..", "||", "!=", ">=", "<="}

Pieces ==
  TwoCharOperators \cup
    {"a", "1", "0x", " ", "\n", "/", "*", "*/", "\"", ";", "#"}

RECURSIVE PieceSeqs(_)
PieceSeqs(n) ==
  IF n = 0 THEN {<<>>}
  ELSE PieceSeqs(n - 1) \cup
       {Append(ps, piece) : ps \in PieceSeqs(n - 1), piece \in Pieces}

\* the text written by a sequence of lexemes
RECURSIVE Written(_)
Written(ps) == IF ps = <<>> THEN "" ELSE Head(ps) \o Written(Tail(ps))

InitTok ==
  /\ cls = "tokenizer.js"
  /\ last = [op |-> "new"]
  /\ scopes = <<NewEnvironment(0)>>
  /\ out = <<>>
  /\ IdleTry
  /\ IdleRun
  /\ parts \in PieceSeqs(MaxPieces)
  /\ input = Written(parts)
  /\ pos = 0
  /\ tokens = <<>>
  /\ tokenized = [kind |-> "none"]
  /\ goal = "none"
  /\ parserTokens = <<>>
  /\ parserPos = 0
  /\ programBody = <<>>
  /\ parsed = [kind |-> "none"]

\* the loop of tokenize is at a character that passes the test of branch b
At(b) ==
  /\ tokenized.kind = "none"
  /\ pos < Len(input)
  /\ branch(input, pos) = b

\* tokens.push(this.readX()); continue; or the Error of readX leaves tokenize
Push(r) ==
  /\ IF r.ok
       THEN /\ tokens' = Append(tokens, r.token)
            /\ pos' = r.pos
            /\ UNCHANGED tokenized
       ELSE /\ tokenized' = [kind |-> "throw", message |-> r.error]
            /\ UNCHANGED <<tokens, pos>>
  /\ UNCHANGED <<parts, input, notTok>>

\* if (/\s/.test(char)) { this.advance(char === '\n'); continue; }
SkipWhitespace ==
  /\ At("whitespace")
  /\ pos' = pos + 1
  /\ UNCHANGED <<parts, input, tokens, tokenized, notTok>>

ReadLineComment == At("readLineComment") /\ Push(readLineComment(input, pos))

ReadBlockComment == At("readBlockComment") /\ Push(readBlockComment(input, pos))

ReadIdentifierOrKeyword ==
  At("readIdentifierOrKeyword") /\ Push(readIdentifierOrKeyword(input, pos))

ReadNumberOrHex == At("readNumberOrHex") /\ Push(readNumberOrHex(input, pos))

ReadText == At("readText") /\ Push(readText(input, pos))

ReadBase64 == At("readBase64") /\ Push(readBase64(input, pos))

ReadOperator == At("readOperator") /\ Push(readOperator(input, pos))

ReadSymbol == At("readSymbol") /\ Push(readSymbol(input, pos))

\* throw new Error(`Unexpected character ...`)
Unexpected == At("throw") /\ Push(scan(input, pos))

\* the loop ends: tokens.push(new Token('eof', ...)); return tokens
PushEof ==
  /\ tokenized.kind = "none"
  /\ pos >= Len(input)
  /\ tokens' = Append(tokens, Token("eof", ""))
  /\ tokenized' = [kind |-> "return", value |-> tokens']
  /\ UNCHANGED <<parts, input, pos, notTok>>

NextTok ==
  \/ SkipWhitespace \/ ReadLineComment \/ ReadBlockComment
  \/ ReadIdentifierOrKeyword \/ ReadNumberOrHex \/ ReadText \/ ReadBase64
  \/ ReadOperator \/ ReadSymbol \/ Unexpected \/ PushEof

SpecTok == InitTok /\ [][NextTok]_vars

\* the positions of the eof tokens in a token sequence
Eofs(toks) == {k \in 1..Len(toks) : toks[k].type = "eof"}

\* C15: when tokenize returns, the token sequence holds exactly one
\* end-of-input token and it is the last token; every turn of the scanning
\* loop consumes at least one character and never passes the end of the
\* input, so tokenize halts.
C15_OneEofAndProgress ==
  [][/\ tokenized'.kind = "return" => Eofs(tokens') = {Len(tokens')}
     /\ tokenized'.kind = "none" => (pos' > pos /\ pos' <= Len(input))]_vars

\* tokenize returned after scanning a comment, a text and further tokens
C15_Witness ==
  /\ tokenized.kind = "return"
  /\ \E k \in 1..Len(tokens) : tokens[k].type \in {"line-comment", "block-comment", "text"}
  /\ Len(tokens) >= 3

\* the text has no text literal and no comment: no quote, slash or star
PlainSource ==
  \A k \in 1..Len(parts) : parts[k] \notin {"\"", "/", "*", "*/"}

IsTwoCharOperator(x) == x \in TwoCharOperators

IsTwoCharOperatorToken(token) ==
  token.type = "operator" /\ token.value \in TwoCharOperators

RECURSIVE Values(_)
Values(toks) ==
  IF toks = <<>> THEN <<>> ELSE <<Head(toks).value>> \o Values(Tail(toks))

\* C16: every two-character operator written in a source without texts and
\* comments comes out of tokenize as one operator token with that text,
\* whatever is written before and after it.
C16_TwoCharOperators ==
  (tokenized.kind = "return" /\ PlainSource) =>
    Values(SelectSeq(tokens, IsTwoCharOperatorToken))
      = SelectSeq(parts, IsTwoCharOperator)

(***************************************************************************)
(* SpecParse: a source text goes through Tokenizer.tokenize and its tokens *)
(* through Parser.parseProgram or Parser.parseExpr.  Parser.pos counts     *)
(* from 0.  Of the declarations of a pack                                  *)
(* body the model has pack and loose, of the factors of an expression the  *)
(* values, names and the unary operators; a token sequence that takes the  *)
(* Parser into another method ends in Unmodelled, and no token sequence    *)
(* of SpecParse does.                                                      *)
(***************************************************************************)
MaxTop == 2

MaxOperands == 3

\* this.tokens[this.pos] || { type: 'eof', value: '' }
peek(toks, p) == IF p < Len(toks) THEN toks[p + 1] ELSE Token("eof", "")

\* a parse method returned node and left this.pos at p
Parsed(node, p) == [ok |-> TRUE, node |-> node, pos |-> p]

\* a parse method threw
ParseError(message) == [ok |-> FALSE, error |-> message]

\* the Parser went into a method the model does not have
Unmodelled(method) == [ok |-> FALSE, error |-> "unmodelled " \o method]

\* Parser.consume; the value "" stands for the default null
consume(toks, p, type, value) ==
  LET token == peek(toks, p)
      expected == IF value # "" THEN value ELSE type
  IN IF token.type = "eof"
       THEN ParseError("Unexpected end of input, expected " \o expected)
     ELSE IF token.type # type \/ (value # "" /\ token.value # value)
       THEN ParseError("Expected " \o expected \o ", got " \o token.value)
     ELSE Parsed(token, p + 1)

DigitValue ==
  "0" :> 0 @@ "1" :> 1 @@ "2" :> 2 @@ "3" :> 3 @@ "4" :> 4 @@ "5" :> 5
    @@ "6" :> 6 @@ "7" :> 7 @@ "8" :> 8 @@ "9" :> 9

\* the number written by the digits of str from position from up to to
RECURSIVE digits(_, _, _)
digits(str, from, to) ==
  IF to <= from THEN 0
  ELSE digits(str, from, to - 1) * 10 + DigitValue[charAt(str, to - 1)]

RECURSIVE pow10(_)
pow10(k) == IF k = 0 THEN 1 ELSE 10 * pow10(k - 1)

\* parseFloat of the value of a number or decimal token: the longest prefix
\* that is a number, digits with at most one point
parseFloat(str) ==
  LET intEnd == span(str, 0, Digits)
      fracEnd == IF charAt(str, intEnd) = "." THEN span(str, intEnd + 1, Digits)
                 ELSE intEnd
  IN IF fracEnd = intEnd THEN JsNumber(digits(str, 0, intEnd))
     ELSE JsFraction(digits(str, 0, intEnd) * pow10(fracEnd - intEnd - 1)
                       + digits(str, intEnd + 1, fracEnd),
                     pow10(fracEnd - intEnd - 1))

\* Parser.parseFactorExpr
RECURSIVE parseFactorExpr(_, _)
parseFactorExpr(toks, p) ==
  LET token == peek(toks, p)
      negated(r) ==
        IF r.ok THEN Parsed([type |-> "NotExpr", op |-> token.value, expr |-> r.node],
                            r.pos)
        ELSE r
  IN CASE token.type \in {"number", "decimal"} ->
            Parsed([type |-> "Number", value |-> parseFloat(token.value)], p + 1)
       [] token.type = "hex" ->
            Parsed([type |-> "Hex", value |-> Text(token.value)], p + 1)
       [] token.type = "base64" ->
            Parsed([type |-> "Base64", value |-> Text(token.value)], p + 1)
       [] token.type = "text" -> Parsed(TextNode(token.value), p + 1)
       [] token.type = "keyword" /\ token.value \in {"true", "false"} ->
            Parsed(Literal(token.value = "true"), p + 1)
       [] token.type = "keyword" /\ token.value = "null" ->
            Parsed([type |-> "Literal", value |-> JsNull], p + 1)
       [] token.type = "identifier" ->
            IF peek(toks, p + 1).value = "(" THEN Unmodelled("parseCall")
            ELSE IF peek(toks, p + 1).value = "{" THEN Unmodelled("parseBoxExpr")
            ELSE Parsed(Identifier(token.value), p + 1)
       [] token.type \notin {"number", "decimal", "hex", "base64", "text", "identifier"}
            /\ token.value \in {"(", "{", "["} ->
            Unmodelled("group, dict or list expression")
       [] token.type = "operator" /\ token.value \in {"!", "-"} ->
            negated(parseFactorExpr(toks, p + 1))
       [] OTHER -> ParseError("Unexpected token " \o token.value)

RECURSIVE parseTermExprFrom(_, _, _)
parseTermExprFrom(toks, expr, p) ==
  LET next(r) ==
        IF r.ok THEN parseTermExprFrom(toks, BinaryExpr(peek(toks, p).value, expr, r.node),
                     r.pos)
        ELSE r
  IN IF peek(toks, p).type = "operator" /\ peek(toks, p).value \in {"*", "/", "%"}
       THEN next(parseFactorExpr(toks, p + 1))
       ELSE Parsed(expr, p)

\* Parser.parseTermExpr
parseTermExpr(toks, p) ==
  LET first(r) == IF r.ok THEN parseTermExprFrom(toks, r.node, r.pos) ELSE r
  IN first(parseFactorExpr(toks, p))

\* parseMathExpr building its operator chain to the right
RECURSIVE parseMathExprRight(_, _)
parseMathExprRight(toks, p) ==
  LET rest(l, r) ==
        IF r.ok THEN Parsed(BinaryExpr(peek(toks, l.pos).value, l.node, r.node), r.pos)
        ELSE r
      first(l) ==
        IF l.ok /\ peek(toks, l.pos).type = "operator"
                /\ peek(toks, l.pos).value \in {"+", "-"}
          THEN rest(l, parseMathExprRight(toks, l.pos + 1))
          ELSE l
  IN first(parseTermExpr(toks, p))

RECURSIVE parseMathExprFrom(_, _, _)
parseMathExprFrom(toks, expr, p) ==
  LET next(r) ==
        IF r.ok THEN parseMathExprFrom(toks, BinaryExpr(peek(toks, p).value, expr, r.node),
                     r.pos)
        ELSE r
  IN IF peek(toks, p).type = "operator" /\ peek(toks, p).value \in {"+", "-"}
       THEN next(parseTermExpr(toks, p + 1))
       ELSE Parsed(expr, p)

\* Parser.parseMathExpr
parseMathExpr(toks, p) ==
  LET first(r) == IF r.ok THEN parseMathExprFrom(toks, r.node, r.pos) ELSE r
  IN first(parseTermExpr(toks, p))

RECURSIVE parseCompareExprFrom(_, _, _)
parseCompareExprFrom(toks, expr, p) ==
  LET next(r) ==
        IF r.ok THEN parseCompareExprFrom(toks, BinaryExpr(peek(toks, p).value, expr, r.node),
                     r.pos)
        ELSE r
  IN IF peek(toks, p).type = "operator" /\ peek(toks, p).value \in {"==", "!=", ">", "<", ">=", "<="}
       THEN next(parseMathExpr(toks, p + 1))
       ELSE Parsed(expr, p)

\* Parser.parseCompareExpr
parseCompareExpr(toks, p) ==
  LET first(r) == IF r.ok THEN parseCompareExprFrom(toks, r.node, r.pos) ELSE r
  IN first(parseMathExpr(toks, p))

RECURSIVE parseLogicExprFrom(_, _, _)
parseLogicExprFrom(toks, expr, p) ==
  LET next(r) ==
        IF r.ok THEN parseLogicExprFrom(toks, BinaryExpr(peek(toks, p).value, expr, r.node),
                     r.pos)
        ELSE r
  IN IF peek(toks, p).type = "operator" /\ peek(toks, p).value \in {"&&", "||"}
       THEN next(parseCompareExpr(toks, p + 1))
       ELSE Parsed(expr, p)

\* Parser.parseLogicExpr
parseLogicExpr(toks, p) ==
  LET first(r) == IF r.ok THEN parseLogicExprFrom(toks, r.node, r.pos) ELSE r
  IN first(parseCompareExpr(toks, p))

\* Parser.parseExpr
parseExpr(toks, p) ==
  IF peek(toks, p).value \in {"throw", "wait", "fn", "recall"}
    THEN Unmodelled("parseThrowExpr, parseWaitExpr, parseSmallFnExpr, parseQueryExpr")
    ELSE parseLogicExpr(toks, p)

\* Parser.parseLooseDecl
parseLooseDecl(toks, p) ==
  LET closed(expr, r) == IF r.ok THEN Parsed(LooseDecl(expr.node), r.pos) ELSE r
      value(expr) ==
        IF expr.ok THEN closed(expr, consume(toks, expr.pos, "symbol", ";")) ELSE expr
      opened(r) == IF r.ok THEN value(parseExpr(toks, r.pos)) ELSE r
  IN opened(consume(toks, p, "keyword", "loose"))

\* Parser.parseNote
parseNote(toks, p) ==
  LET token == peek(toks, p)
  IN IF token.type \in {"line-comment", "block-comment"}
       THEN Parsed([type |-> IF token.type = "line-comment" THEN "LineNote"
                             ELSE "BlockNote",
                    value |-> token.value], p + 1)
       ELSE ParseError("Expected comment, got " \o token.value)

\* Parser.parseTags, the inner loop: while (this.peek().value !== ']')
RECURSIVE parseTagNames(_, _, _)
parseTagNames(toks, p, tags) ==
  LET next(r) ==
        IF r.ok THEN parseTagNames(toks, r.pos, Append(tags, r.node.value)) ELSE r
  IN IF peek(toks, p).value # "]" THEN next(consume(toks, p, "keyword", ""))
     ELSE Parsed(tags, p)

\* Parser.parseTags
RECURSIVE parseTagsFrom(_, _, _)
parseTagsFrom(toks, p, tags) ==
  LET closed(names, r) == IF r.ok THEN parseTagsFrom(toks, r.pos, names.node) ELSE r
      named(names) ==
        IF names.ok THEN closed(names, consume(toks, names.pos, "symbol", "]"))
        ELSE names
      opened(r) == IF r.ok THEN named(parseTagNames(toks, r.pos, tags)) ELSE r
  IN IF peek(toks, p).value = "[" THEN opened(consume(toks, p, "symbol", "["))
     ELSE Parsed(tags, p)

parseTags(toks, p) == parseTagsFrom(toks, p, <<>>)

\* the keywords of parseNamespaceOrPackBody whose parse methods the model
\* does not have
OtherDecls ==
  {"var", "fn", "box", "map", "queue", "view", "entity", "job", "money",
   "promise", "reputation", "consensus", "share", "send", "allow", "bridge",
   "think", "target", "type", "format", "guard", "error", "test"}

RECURSIVE parsePack(_, _), parseBody(_, _, _), parseNamespaceOrPackBody(_, _)

\* Parser.parsePack
parsePack(toks, p) ==
  LET closed(name, tags, items, r) ==
        IF r.ok THEN Parsed([type |-> "Pack", name |-> name.node.value,
                             tags |-> tags.node, body |-> items.node], r.pos)
        ELSE r
      filled(name, tags, items) ==
        IF items.ok THEN closed(name, tags, items,
                                consume(toks, items.pos, "symbol", "}"))
        ELSE items
      opened(name, tags, r) ==
        IF r.ok THEN filled(name, tags, parseBody(toks, r.pos, <<>>)) ELSE r
      tagged(name, tags) ==
        IF tags.ok THEN opened(name, tags, consume(toks, tags.pos, "symbol", "{"))
        ELSE tags
      named(name) == IF name.ok THEN tagged(name, parseTags(toks, name.pos)) ELSE name
      started(r) == IF r.ok THEN named(consume(toks, r.pos, "identifier", "")) ELSE r
  IN started(consume(toks, p, "keyword", "pack"))

\* while (this.peek().value !== '}') body.push(this.parseNamespaceOrPackBody())
parseBody(toks, p, items) ==
  LET next(r) == IF r.ok THEN parseBody(toks, r.pos, Append(items, r.node)) ELSE r
  IN IF peek(toks, p).value # "}" THEN next(parseNamespaceOrPackBody(toks, p))
     ELSE Parsed(items, p)

\* Parser.parseNamespaceOrPackBody
parseNamespaceOrPackBody(toks, p) ==
  LET token == peek(toks, p)
  IN IF token.type = "keyword"
       THEN CASE token.value = "pack" -> parsePack(toks, p)
              [] token.value = "loose" -> parseLooseDecl(toks, p)
              [] token.value \in OtherDecls -> Unmodelled("declaration " \o token.value)
              [] token.value \in {"line-comment", "block-comment"} -> parseNote(toks, p)
              [] OTHER -> ParseError("Unexpected keyword " \o token.value)
       ELSE ParseError("Unexpected token " \o token.value)

\* Parser.parseNamespace
parseNamespace(toks, p) ==
  LET closed(name, items, r) ==
        IF r.ok THEN Parsed([type |-> "Namespace", name |-> name.node.value,
                             body |-> items.node], r.pos)
        ELSE r
      filled(name, items) ==
        IF items.ok THEN closed(name, items, consume(toks, items.pos, "symbol", "}"))
        ELSE items
      opened(name, r) == IF r.ok THEN filled(name, parseBody(toks, r.pos, <<>>)) ELSE r
      named(name) ==
        IF name.ok THEN opened(name, consume(toks, name.pos, "symbol", "{")) ELSE name
      started(r) == IF r.ok THEN named(consume(toks, r.pos, "identifier", "")) ELSE r
  IN started(consume(toks, p, "keyword", "namespace"))

\* Parser.parseProgram, one turn of its loop
parseTopLevel(toks, p) ==
  LET token == peek(toks, p)
  IN IF token.type = "keyword"
       THEN CASE token.value = "namespace" -> parseNamespace(toks, p)
              [] token.value = "pack" -> parsePack(toks, p)
              [] token.value \in {"line-comment", "block-comment"} -> parseNote(toks, p)
              [] OTHER -> ParseError("Unexpected keyword " \o token.value)
       ELSE ParseError("Unexpected token " \o token.value)

\* the source texts of SpecParse: top-level items, written one after the
\* other with a blank between them
VarProgram == "var x: num = 2; var y: num = 3; say x + y;"

Declarations ==
  {"pack main { }", "namespace app { }", "pack main [public] { loose 1 + 2; }",
   "namespace app { pack inner { loose true; } }"}

Comments == {"// note\n", "/* note */"}

TopLevelItems ==
  Declarations \cup Comments \cup
    {VarProgram, "loose a==bc;", "say \"x\";", "}", "#"}

RECURSIVE ItemSeqs(_)
ItemSeqs(n) ==
  IF n = 0 THEN {<<>>}
  ELSE ItemSeqs(n - 1) \cup
       {Append(ps, item) : ps \in ItemSeqs(n - 1), item \in TopLevelItems}

\* the binary operators, every tier of parseExpr
BinaryOperators ==
  {"&&", "||", "==", "!=", ">", "<", ">=", "<=", "+", "-", "*", "/", "%"}

\* operand operator operand ...: the k-th operand is the number k
RECURSIVE OperandsAndOperators(_)
OperandsAndOperators(n) ==
  IF n = 1 THEN {<<"1">>}
  ELSE {ps \o <<op, ToString(n)>> :
          ps \in OperandsAndOperators(n - 1), op \in BinaryOperators}

\* the lexemes written one after the other, a blank after each
RECURSIVE Joined(_)
Joined(ps) == IF ps = <<>> THEN "" ELSE Head(ps) \o " " \o Joined(Tail(ps))

InitParse ==
  /\ cls = "parser.js"
  /\ last = [op |-> "new"]
  /\ scopes = <<NewEnvironment(0)>>
  /\ out = <<>>
  /\ IdleTry
  /\ IdleRun
  /\ \/ /\ goal = "parseProgram"
        /\ parts \in ItemSeqs(MaxTop)
     \/ /\ goal = "parseExpr"
        /\ parts \in UNION {OperandsAndOperators(n) : n \in 1..MaxOperands}
  /\ input = Joined(parts)
  /\ pos = 0
  /\ tokens = <<>>
  /\ tokenized = [kind |-> "none"]
  /\ parserTokens = <<>>
  /\ parserPos = 0
  /\ programBody = <<>>
  /\ parsed = [kind |-> "none"]

\* new Parser(tokens), tokens being what tokenize returned
NewParser ==
  /\ tokenized.kind = "return"
  /\ parserTokens = <<>>
  /\ parserTokens' = tokenized.value
  /\ UNCHANGED <<goal, parserPos, programBody, parsed, notParse>>

\* parseProgram, the loop: node.body.push(this.parseX()), or the Error
ParseTopLevel ==
  /\ goal = "parseProgram"
  /\ parserTokens # <<>>
  /\ parsed.kind = "none"
  /\ peek(parserTokens, parserPos).type # "eof"
  /\ LET step(r) ==
           IF r.ok
             THEN /\ programBody' = Append(programBody, r.node)
                  /\ parserPos' = r.pos
                  /\ UNCHANGED parsed
             ELSE /\ parsed' = [kind |-> "throw", message |-> r.error]
                  /\ UNCHANGED <<programBody, parserPos>>
     IN step(parseTopLevel(parserTokens, parserPos))
  /\ UNCHANGED <<goal, parserTokens, notParse>>

\* parseProgram, the loop ends: return node
ParseProgramReturn ==
  /\ goal = "parseProgram"
  /\ parserTokens # <<>>
  /\ parsed.kind = "none"
  /\ peek(parserTokens, parserPos).type = "eof"
  /\ parsed' = [kind |-> "return", value |-> Program(programBody)]
  /\ UNCHANGED <<goal, parserTokens, parserPos, programBody, notParse>>

\* new Parser(tokens).parseExpr()
ParseExpr ==
  /\ goal = "parseExpr"
  /\ parserTokens # <<>>
  /\ parsed.kind = "none"
  /\ LET step(r) ==
           /\ parsed' = IF r.ok THEN [kind |-> "return", value |-> r.node]
                        ELSE [kind |-> "throw", message |-> r.error]
           /\ parserPos' = IF r.ok THEN r.pos ELSE parserPos
     IN step(parseExpr(parserTokens, parserPos))
  /\ UNCHANGED <<goal, parserTokens, programBody, notParse>>

NextParse ==
  \/ SkipWhitespace \/ ReadLineComment \/ ReadBlockComment
  \/ ReadIdentifierOrKeyword \/ ReadNumberOrHex \/ ReadText \/ ReadBase64
  \/ ReadOperator \/ ReadSymbol \/ Unexpected \/ PushEof
  \/ NewParser \/ ParseTopLevel \/ ParseProgramReturn \/ ParseExpr

SpecParse == InitParse /\ [][NextParse]_vars

\* C13: the source var x: num = 2; var y: num = 3; say x + y; is accepted by
\* tokenize and by parseProgram (and its execution prints 5).
C13_VarProgramAccepted ==
  (/\ goal = "parseProgram"
   /\ parts = <<VarProgram>>
   /\ tokenized.kind = "throw" \/ parsed.kind # "none") =>
    (tokenized.kind = "return" /\ parsed.kind = "return")

\* C17: a source of namespace declarations, pack declarations and comments
\* parses to a Program whose body has one entry for each of them, and a
\* source with any other top-level token fails to parse.
C17_TopLevelItems ==
  (goal = "parseProgram" /\ parsed.kind # "none") =>
    IF \A k \in 1..Len(parts) : parts[k] \in Declarations \cup Comments
      THEN parsed.kind = "return" /\ Len(parsed.value.body) = Len(parts)
      ELSE parsed.kind = "throw"

\* the binding strength of a binary operator, the loosest tier being 1
Precedence(op) ==
  CASE op \in {"&&", "||"} -> 1
    [] op \in {"==", "!=", ">", "<", ">=", "<="} -> 2
    [] op \in {"+", "-"} -> 3
    [] op \in {"*", "/", "%"} -> 4

\* the reference parser: precedence climbing over the same factors
RECURSIVE climb(_, _, _), climbFrom(_, _, _, _)
climb(toks, p, min) ==
  LET first(r) == IF r.ok THEN climbFrom(toks, r.node, r.pos, min) ELSE r
  IN first(parseFactorExpr(toks, p))

climbFrom(toks, left, p, min) ==
  LET token == peek(toks, p)
      next(r) ==
        IF r.ok THEN climbFrom(toks, BinaryExpr(token.value, left, r.node), r.pos, min)
        ELSE r
  IN IF token.type = "operator" /\ token.value \in BinaryOperators
          /\ Precedence(token.value) >= min
       THEN next(climb(toks, p + 1, Precedence(token.value) + 1))
       ELSE Parsed(left, p)

\* C18: parseExpr builds binary expressions by strict precedence, logical
\* loosest, then comparison, additive, multiplicative, each tier associating
\* to the left: on every operand/operator token sequence its AST is the
\* one the precedence-climbing reference parser builds.
C18_PrecedenceClimbing ==
  (goal = "parseExpr" /\ parsed.kind # "none") =>
    LET reference == climb(parserTokens, 0, 1)
    IN /\ reference.ok
       /\ parsed = [kind |-> "return", value |-> reference.node]
       /\ parserPos = reference.pos

\* 1 + 2 * 3 nests the product under the sum, 1 - 2 - 3 the first
\* difference under the second
C18_Witness ==
  /\ goal = "parseExpr"
  /\ parsed.kind = "return"
  /\ \/ parsed.value = BinaryExpr("+", Number(1), BinaryExpr("*", Number(2), Number(3)))
     \/ parsed.value = BinaryExpr("-", BinaryExpr("-", Number(1), Number(2)), Number(3))

====
